---- MODULE Spec2Model ----
(***************************************************************************)
(* A model of envist, a .env file parser: the line validator               *)
(* (validators/env_validator.py), the line filter (utils/file_handler.py), *)
(* the type caster (utils/type_casters.py) and the Envist parser class     *)
(* (core/parser.py) with its typed map and the process environment.        *)
(*                                                                         *)
(* Text is modelled character by character: a Python str is a sequence of  *)
(* one-character strings, so that stripping, quote removal, the regular    *)
(* expressions and str.replace are computed as the code computes them.     *)
(***************************************************************************)
EXTENDS Integers, Sequences, FiniteSets, TLC

VARIABLES
    file,      \* the lines of the file at the instance's path, or NoFile
    environ,   \* os.environ: a function from names to strings
    inst,      \* per Envist instance: status, _env, _accept_empty, _auto_cast
    last,      \* the outcome of the last call: operation, instance, exception
    input,     \* the argument of the pure function under check
    output     \* its result

vars == <<file, environ, inst, last, input, output>>

----------------------------------------------------------------------------
(* Python str primitives over sequences of characters.                     *)

Letters ==
    {"A","B","C","D","E","F","G","H","I","J","K","L","M","N","O","P","Q","R",
     "S","T","U","V","W","X","Y","Z","a","b","c","d","e","f","g","h","i","j",
     "k","l","m","n","o","p","q","r","s","t","u","v","w","x","y","z"}

Digits == {"0","1","2","3","4","5","6","7","8","9"}

isspace(c) == c \in {" ", "\t", "\n", "\r"}

isalnum_char(c) == c \in Letters \cup Digits

\* str.isalnum(): non-empty and every character alphanumeric
isalnum(s) == Len(s) > 0 /\ \A i \in 1..Len(s) : isalnum_char(s[i])

\* c in s, for a single character c
HasChar(s, c) == \E i \in 1..Len(s) : s[i] = c

\* s.find(c) for a single character c, 1-based; 0 when absent (Python: -1)
find(s, c) ==
    IF HasChar(s, c) THEN CHOOSE i \in 1..Len(s) : s[i] = c /\ \A j \in 1..(i-1) : s[j] # c
    ELSE 0

\* s[a:b] with 1-based inclusive bounds, empty when a > b
Slice(s, a, b) == IF a > b THEN <<>> ELSE SubSeq(s, a, b)

startswith(s, p) == Len(s) >= Len(p) /\ Slice(s, 1, Len(p)) = p

endswith(s, p) == Len(s) >= Len(p) /\ Slice(s, Len(s) - Len(p) + 1, Len(s)) = p

RECURSIVE lstrip(_)
lstrip(s) == IF s # <<>> /\ isspace(Head(s)) THEN lstrip(Tail(s)) ELSE s

RECURSIVE rstrip(_)
rstrip(s) ==
    IF s # <<>> /\ isspace(s[Len(s)]) THEN rstrip(Slice(s, 1, Len(s) - 1)) ELSE s

strip(s) == rstrip(lstrip(s))

\* s.lower() over the letters of the alphabet
LowerOf(c) ==
    CASE c = "A" -> "a" [] c = "B" -> "b" [] c = "C" -> "c" [] c = "D" -> "d"
      [] c = "E" -> "e" [] c = "F" -> "f" [] c = "G" -> "g" [] c = "H" -> "h"
      [] c = "I" -> "i" [] c = "J" -> "j" [] c = "K" -> "k" [] c = "L" -> "l"
      [] c = "M" -> "m" [] c = "N" -> "n" [] c = "O" -> "o" [] c = "P" -> "p"
      [] c = "Q" -> "q" [] c = "R" -> "r" [] c = "S" -> "s" [] c = "T" -> "t"
      [] c = "U" -> "u" [] c = "V" -> "v" [] c = "W" -> "w" [] c = "X" -> "x"
      [] c = "Y" -> "y" [] c = "Z" -> "z" [] OTHER -> c

lower(s) == [i \in 1..Len(s) |-> LowerOf(s[i])]

\* s.replace(c, "") for a single character c
RemoveChar(s, c) == SelectSeq(s, LAMBDA x : x # c)

\* s.replace(old, new): every non-overlapping occurrence, left to right
RECURSIVE replace(_, _, _)
replace(s, old, new) ==
    IF old = <<>> \/ Len(s) < Len(old) THEN s
    ELSE IF startswith(s, old)
         THEN new \o replace(Slice(s, Len(old) + 1, Len(s)), old, new)
         ELSE <<Head(s)>> \o replace(Tail(s), old, new)

----------------------------------------------------------------------------
(* validators/env_validator.py: EnvValidator                               *)

\* an exception: its class, what it reports, the line number and the
\* variable its message names (0 and <<>> when the message names none)
Exc(cls, what) == [cls |-> cls, what |-> what, line |-> 0, key |-> <<>>]

NoExc == Exc("none", "none")

EnvistParseError(what) == Exc("EnvistParseError", what)

LineOk(key, value, typed, cast_type) ==
    [ok |-> TRUE, key |-> key, value |-> value, typed |-> typed,
     cast_type |-> cast_type, exc |-> NoExc]

LineFail(what) ==
    [ok |-> FALSE, key |-> <<>>, value |-> <<>>, typed |-> FALSE,
     cast_type |-> <<>>, exc |-> EnvistParseError(what)]

\* EnvValidator._remove_quotes
remove_quotes(value) ==
    IF /\ Len(value) >= 2
       /\ \/ (value[1] = "\"" /\ value[Len(value)] = "\"")
          \/ (value[1] = "'" /\ value[Len(value)] = "'")
    THEN Slice(value, 2, Len(value) - 1)
    ELSE value

\* EnvValidator.validate_key: ^[A-Za-z_][A-Za-z0-9_]*$
validate_key(key) ==
    /\ Len(key) >= 1
    /\ key[1] \in Letters \cup {"_"}
    /\ \A i \in 2..Len(key) : key[i] \in Letters \cup Digits \cup {"_"}

\* the angle brackets of s[i..] close without the count going negative,
\* starting from count cnt
RECURSIVE BracketsBalanced(_, _, _)
BracketsBalanced(s, i, cnt) ==
    IF i > Len(s) THEN cnt = 0
    ELSE IF s[i] = "<" THEN BracketsBalanced(s, i + 1, cnt + 1)
    ELSE IF s[i] = ">" THEN cnt - 1 >= 0 /\ BracketsBalanced(s, i + 1, cnt - 1)
    ELSE BracketsBalanced(s, i + 1, cnt)

\* the number of bracket groups opened at depth 0 in s[i..]
RECURSIVE TopLevelGroups(_, _, _)
TopLevelGroups(s, i, depth) ==
    IF i > Len(s) THEN 0
    ELSE IF s[i] = "<"
         THEN (IF depth = 0 THEN 1 ELSE 0) + TopLevelGroups(s, i + 1, depth + 1)
    ELSE IF s[i] = ">" THEN TopLevelGroups(s, i + 1, depth - 1)
    ELSE TopLevelGroups(s, i + 1, depth)

\* _validate_type_syntax on clean_str, the type without whitespace, whose
\* first "<" is at index lt: ^[a-zA-Z_][a-zA-Z0-9_]*<.+>$ and one top-level group
generic_type_shape(clean_str, lt) ==
    /\ validate_key(Slice(clean_str, 1, lt - 1))
    /\ Len(clean_str) >= lt + 2
    /\ clean_str[Len(clean_str)] = ">"
    /\ TopLevelGroups(clean_str, 1, 0) = 1

clean_type_shape(clean_str) ==
    ~HasChar(clean_str, "<") \/ generic_type_shape(clean_str, find(clean_str, "<"))

\* EnvValidator._validate_type_syntax
validate_type_syntax(type_str) ==
    /\ type_str # <<>>
    /\ BracketsBalanced(type_str, 1, 0)
    /\ ~(\E i \in 1..(Len(type_str) - 1) : type_str[i] = "<" /\ type_str[i + 1] = ">")
    /\ type_str[1] # "<"
    /\ clean_type_shape(SelectSeq(type_str, LAMBDA c : ~isspace(c)))

\* the first index of s holding one of the characters of cs; 0 when none
FirstOf(s, cs) ==
    IF \E i \in 1..Len(s) : s[i] \in cs
    THEN CHOOSE i \in 1..Len(s) : s[i] \in cs /\ \A j \in 1..(i-1) : s[j] \notin cs
    ELSE 0

\* [^<>]+(?:<[^<>]*>[^<>]*)* followed by ">": the index in s of that closing
\* ">" (the first ">" outside an inner group), 0 when s does not match
RECURSIVE TypeGroupEnd(_, _, _)
TypeGroupEnd(s, i, depth) ==
    IF i > Len(s) THEN 0
    ELSE IF depth = 0
         THEN IF s[i] = "<" THEN (IF i = 1 THEN 0 ELSE TypeGroupEnd(s, i + 1, 1))
              ELSE IF s[i] = ">" THEN (IF i = 1 THEN 0 ELSE i)
              ELSE TypeGroupEnd(s, i + 1, 0)
         ELSE IF s[i] = "<" THEN 0
              ELSE IF s[i] = ">" THEN TypeGroupEnd(s, i + 1, 0)
              ELSE TypeGroupEnd(s, i + 1, 1)

\* the groups of a regular expression match
Groups(key, cast_type, value) == [m |-> TRUE, key |-> key, cast_type |-> cast_type, value |-> value]

NoMatch == [m |-> FALSE, key |-> <<>>, cast_type |-> <<>>, value |-> <<>>]

\* the type pattern on key "<" rest, q the end of the type in rest
type_match_groups(key, rest, q) ==
    IF q > 0 /\ q < Len(rest) /\ rest[q + 1] = "="
    THEN Groups(key, Slice(rest, 1, q - 1), Slice(rest, q + 2, Len(rest)))
    ELSE NoMatch

type_match_rest(key, rest) == type_match_groups(key, rest, TypeGroupEnd(rest, 1, 0))

type_match_at(line, p) ==
    IF p >= 2 /\ line[p] = "<"
    THEN type_match_rest(Slice(line, 1, p - 1), Slice(line, p + 1, Len(line)))
    ELSE NoMatch

\* re.match(r"^([^<>=]+)<([^<>]+(?:<[^<>]*>[^<>]*)*)>=(.*)$", line)
type_annotation_match(line) == type_match_at(line, FirstOf(line, {"<", ">", "="}))

\* the colon pattern on key ":" rest, q the first ":" or "=" of rest
colon_match_groups(key, rest, q) ==
    IF q >= 2 /\ rest[q] = "="
    THEN Groups(key, Slice(rest, 1, q - 1), Slice(rest, q + 1, Len(rest)))
    ELSE NoMatch

colon_match_rest(key, rest) == colon_match_groups(key, rest, FirstOf(rest, {":", "="}))

colon_match_at(line, p) ==
    IF p >= 2 /\ line[p] = ":"
    THEN colon_match_rest(Slice(line, 1, p - 1), Slice(line, p + 1, Len(line)))
    ELSE NoMatch

\* re.match(r"^([^:=]+):([^:=]+)=(.*)$", line)
colon_annotation_match(line) == colon_match_at(line, FirstOf(line, {":", "="}))

\* the value of an annotated line: kept verbatim for the type str, stripped
\* otherwise, then unquoted
annotated_value(cast_type, value) ==
    remove_quotes(IF lower(cast_type) = <<"s", "t", "r">> THEN value ELSE strip(value))

\* the index of the ">" that closes the "<" at index i of line; 0 when none
RECURSIVE MatchingBracket(_, _, _)
MatchingBracket(line, i, cnt) ==
    IF i > Len(line) THEN 0
    ELSE IF line[i] = "<" THEN MatchingBracket(line, i + 1, cnt + 1)
    ELSE IF line[i] = ">"
         THEN (IF cnt - 1 = 0 THEN i ELSE MatchingBracket(line, i + 1, cnt - 1))
    ELSE MatchingBracket(line, i + 1, cnt)

\* the checks of the type pattern branch on the stripped key and type and
\* the value
type_branch_checks(key, cast_type, value, accept_empty) ==
    IF key = <<>> THEN LineFail("KeyEmpty")
    ELSE IF ~validate_type_syntax(cast_type) THEN LineFail("InvalidTypeSyntax")
    ELSE IF ~accept_empty /\ value = <<>> THEN LineFail("EmptyValue")
    ELSE LineOk(key, value, TRUE, cast_type)

type_branch_value(key, cast_type, raw_value, accept_empty) ==
    type_branch_checks(key, cast_type, annotated_value(cast_type, raw_value), accept_empty)

\* the branch of parse_line_with_cast taken when the type pattern matched
parse_type_branch(m, accept_empty) ==
    type_branch_value(strip(m.key), strip(m.cast_type), m.value, accept_empty)

colon_branch_checks(key, cast_type, value, accept_empty) ==
    IF key = <<>> THEN LineFail("KeyEmpty")
    ELSE IF cast_type = <<>> \/ ~isalnum(RemoveChar(cast_type, "_"))
         THEN LineFail("InvalidTypeSyntax")
    ELSE IF ~accept_empty /\ value = <<>> THEN LineFail("EmptyValue")
    ELSE LineOk(key, value, TRUE, cast_type)

colon_branch_value(key, cast_type, raw_value, accept_empty) ==
    colon_branch_checks(key, cast_type, annotated_value(cast_type, raw_value), accept_empty)

\* the branch of parse_line_with_cast taken when the colon pattern matched
parse_colon_branch(m, accept_empty) ==
    colon_branch_value(strip(m.key), strip(m.cast_type), m.value, accept_empty)

\* the end of the bracket branch: the value after "=", the empty-value check,
\* then the type check
bracket_branch_checks(key, cast_type, value, accept_empty) ==
    IF ~accept_empty /\ value = <<>> THEN LineFail("EmptyValue")
    ELSE IF ~validate_type_syntax(cast_type) THEN LineFail("InvalidTypeSyntax")
    ELSE LineOk(key, value, TRUE, cast_type)

\* remainder.split("=")[0]
before_equals(remainder, eq) == IF eq = 0 THEN remainder ELSE Slice(remainder, 1, eq - 1)

bracket_branch_remainder(key, cast_type, remainder, accept_empty) ==
    IF HasChar(before_equals(remainder, find(remainder, "=")), ">")
    THEN LineFail("ExtraClosingBrackets")
    ELSE IF ~startswith(remainder, <<"=">>) THEN LineFail("InvalidAnnotationFormat")
    ELSE bracket_branch_checks(key, cast_type,
                               annotated_value(cast_type, Slice(remainder, 2, Len(remainder))),
                               accept_empty)

bracket_branch_close(line, key, first_bracket_pos, close_bracket_pos, accept_empty) ==
    IF close_bracket_pos = 0 THEN LineFail("UnmatchedBrackets")
    ELSE bracket_branch_remainder(
             key, strip(Slice(line, first_bracket_pos + 1, close_bracket_pos - 1)),
             strip(Slice(line, close_bracket_pos + 1, Len(line))), accept_empty)

\* the fallback of parse_line_with_cast: the closing bracket found by counting
parse_bracket_branch(line, first_bracket_pos, accept_empty) ==
    IF strip(Slice(line, 1, first_bracket_pos - 1)) = <<>> THEN LineFail("KeyEmpty")
    ELSE bracket_branch_close(line, strip(Slice(line, 1, first_bracket_pos - 1)),
                              first_bracket_pos,
                              MatchingBracket(line, first_bracket_pos, 0), accept_empty)

\* a simple branch without the empty-value check
simple_branch_unchecked(key, value, accept_empty) ==
    IF key = <<>> THEN LineFail("KeyEmpty") ELSE LineOk(key, value, FALSE, <<>>)

simple_branch_checks(key, value, accept_empty) ==
    IF key = <<>> THEN LineFail("KeyEmpty")
    ELSE IF ~accept_empty /\ value = <<>> THEN LineFail("EmptyValue")
    ELSE LineOk(key, value, FALSE, <<>>)

\* re.search(r"(.+?)\s*=\s*(.*)", line) on a line that holds "=" and does
\* not start with it: the key is the text before the first "=" at index eq,
\* the value the text after it, both stripped
parse_simple_branch(line, eq, accept_empty) ==
    simple_branch_checks(strip(Slice(line, 1, eq - 1)),
                         remove_quotes(strip(Slice(line, eq + 1, Len(line)))), accept_empty)

bare_key_checks(key) ==
    IF key = <<>> THEN LineFail("KeyEmpty")
    ELSE IF HasChar(key, " ") \/ ~isalnum(RemoveChar(RemoveChar(key, "_"), "-"))
         THEN LineFail("InvalidFormat")
    ELSE LineOk(key, <<>>, FALSE, <<>>)

\* the branch of parse_line_with_cast for a line without "="
parse_bare_key_branch(line) == bare_key_checks(strip(line))

\* the branches of parse_line_with_cast on a line with "=", given the two
\* pattern matches and the positions of the first "=" and "<"
parse_assignment(line, accept_empty, type_match, colon_match, equals_pos, first_bracket_pos) ==
    IF type_match.m THEN parse_type_branch(type_match, accept_empty)
    ELSE IF colon_match.m THEN parse_colon_branch(colon_match, accept_empty)
    ELSE IF /\ HasChar(line, "<") /\ HasChar(line, ">")
            /\ first_bracket_pos > 1 /\ first_bracket_pos < equals_pos
         THEN parse_bracket_branch(line, first_bracket_pos, accept_empty)
    ELSE parse_simple_branch(line, equals_pos, accept_empty)

\* parse_line_with_cast on the line without its leading whitespace
parse_stripped_line(line, accept_empty) ==
    IF line = <<>> \/ strip(line) = <<>> THEN LineFail("EmptyLine")
    ELSE IF startswith(strip(line), <<"=">>) THEN LineFail("MissingKey")
    ELSE IF ~HasChar(line, "=") THEN parse_bare_key_branch(line)
    ELSE parse_assignment(line, accept_empty, type_annotation_match(line),
                          colon_annotation_match(line), find(line, "="), find(line, "<"))

\* EnvValidator.parse_line_with_cast
parse_line_with_cast(raw_line, accept_empty) == parse_stripped_line(lstrip(raw_line), accept_empty)

----------------------------------------------------------------------------
(* utils/file_handler.py: FileHandler                                      *)

\* the index of the "#" that starts the comment of line, scanning from i
\* with the quote state (in_quotes, quote_char); 0 when the line has none
RECURSIVE comment_start(_, _, _, _)
comment_start(line, i, in_quotes, quote_char) ==
    IF i > Len(line) THEN 0
    ELSE IF line[i] \in {"'", "\""}
         THEN IF ~in_quotes THEN comment_start(line, i + 1, TRUE, line[i])
              ELSE IF line[i] = quote_char THEN comment_start(line, i + 1, FALSE, quote_char)
              ELSE comment_start(line, i + 1, in_quotes, quote_char)
    ELSE IF /\ line[i] = "#" /\ ~in_quotes
            /\ \/ startswith(strip(line), <<"#">>)
               \/ (i > 1 /\ isspace(line[i - 1]))
         THEN i
    ELSE comment_start(line, i + 1, in_quotes, quote_char)

\* the text of line before the comment that starts at index c (0: none)
strip_comment(line, c) == IF c # 0 THEN Slice(line, 1, c - 1) ELSE line

\* what filter_lines keeps of one line: the text before its comment, stripped
filter_line(line) ==
    IF strip(line) = <<>> THEN <<>>
    ELSE strip(strip_comment(line, comment_start(line, 1, FALSE, "")))

\* the kept lines, the empty ones dropped
keep_line(kept) == IF kept # <<>> THEN <<kept>> ELSE <<>>

\* FileHandler.filter_lines (preserve_whitespace = False)
RECURSIVE filter_lines(_)
filter_lines(lines) ==
    IF lines = <<>> THEN <<>>
    ELSE keep_line(filter_line(Head(lines))) \o filter_lines(Tail(lines))

\* the file at a path: absent, or its lines (without their line ends)
NoFile == [exists |-> FALSE, lines |-> <<>>]

FileOf(lines) == [exists |-> TRUE, lines |-> lines]

----------------------------------------------------------------------------
(* Values of the typed map, and Python's dict with its insertion order.    *)

StrV(s) == [t |-> "str", s |-> s, n |-> 0]

IntV(n) == [t |-> "int", s |-> <<>>, n |-> n]

BoolV(b) == [t |-> "bool", s |-> <<>>, n |-> IF b THEN 1 ELSE 0]

NoneV == [t |-> "none", s |-> <<>>, n |-> 0]

\* a list or tuple ("list", "tuple") with its items in order, or a set
\* ("set") with the set of its items
CollectionV(kind, items) == [t |-> kind, items |-> items]

ListV(items) == CollectionV("list", items)

\* a dict with its items [k, v] in insertion order
DictV(items) == [t |-> "dict", items |-> items]

DigitChar(d) ==
    CASE d = 0 -> "0" [] d = 1 -> "1" [] d = 2 -> "2" [] d = 3 -> "3" [] d = 4 -> "4"
      [] d = 5 -> "5" [] d = 6 -> "6" [] d = 7 -> "7" [] d = 8 -> "8" [] d = 9 -> "9"

DigitValue(c) ==
    CASE c = "0" -> 0 [] c = "1" -> 1 [] c = "2" -> 2 [] c = "3" -> 3 [] c = "4" -> 4
      [] c = "5" -> 5 [] c = "6" -> 6 [] c = "7" -> 7 [] c = "8" -> 8 [] c = "9" -> 9

\* the decimal digits of a natural number
RECURSIVE NatStr(_)
NatStr(n) == IF n < 10 THEN <<DigitChar(n)>> ELSE NatStr(n \div 10) \o <<DigitChar(n % 10)>>

\* str(value)
py_str(v) ==
    CASE v.t = "str"  -> v.s
      [] v.t = "int"  -> IF v.n < 0 THEN <<"-">> \o NatStr(-v.n) ELSE NatStr(v.n)
      [] v.t = "bool" -> IF v.n = 1 THEN <<"T","r","u","e">> ELSE <<"F","a","l","s","e">>
      [] v.t = "none" -> <<"N","o","n","e">>

\* str(value) if value is not None else ""
environ_str(v) == IF v.t = "none" THEN <<>> ELSE py_str(v)

\* a dict is the sequence of its items [k, v] in insertion order
dict_has(d, k) == \E i \in 1..Len(d) : d[i].k = k

dict_keys(d) == {d[i].k : i \in 1..Len(d)}

dict_get(d, k) == d[CHOOSE i \in 1..Len(d) : d[i].k = k].v

\* d[k] = v: an existing key keeps its place
dict_set(d, k, v) ==
    IF dict_has(d, k)
    THEN [i \in 1..Len(d) |-> IF d[i].k = k THEN [k |-> k, v |-> v] ELSE d[i]]
    ELSE Append(d, [k |-> k, v |-> v])

\* d.pop(k, None)
dict_pop(d, k) == SelectSeq(d, LAMBDA e : e.k # k)

\* os.environ[k] = s
environ_set(env, k, s) == [x \in DOMAIN env \cup {k} |-> IF x = k THEN s ELSE env[x]]

\* an os.environ that keeps the key
environ_keep(env, k) == env

\* os.environ.pop(k, None)
environ_pop(env, k) == [x \in DOMAIN env \ {k} |-> env[x]]

\* os.environ.get(k) without the default, turned into a str
environ_get_without_default(env, k) == IF k \in DOMAIN env THEN env[k] ELSE <<"N","o","n","e">>

\* os.environ.get(k, "")
environ_get(env, k) == IF k \in DOMAIN env THEN env[k] ELSE <<>>

----------------------------------------------------------------------------
(* core/parser.py: variable resolution                                     *)

\* the nesting ceiling of resolve_recursively
MaxDepth == 10

\* the first "}" of val at or after index i
first_close(val, i) ==
    CHOOSE k \in i..Len(val) : val[k] = "}" /\ \A j \in i..(k - 1) : val[j] # "}"

RECURSIVE findall(_, _)

\* the match that starts at index i of val and closes at index k, and the
\* matches after it
match_and_rest(val, i, k) == <<Slice(val, i + 2, k - 1)>> \o findall(val, k + 1)

\* re.findall(r"\$\{(.+?)\}", val) from index i: the names, in order
findall(val, i) ==
    IF i + 3 > Len(val) THEN <<>>
    ELSE IF val[i] = "$" /\ val[i + 1] = "{" /\ \E k \in (i + 3)..Len(val) : val[k] = "}"
         THEN match_and_rest(val, i, first_close(val, i + 3))
         ELSE findall(val, i + 1)

\* Envist._is_variable, for a str
is_variable(value) == findall(value, 1) # <<>>

\* "${" + match + "}"
reference(match) == <<"$", "{">> \o match \o <<"}">>

Resolved(val) == [ok |-> TRUE, val |-> val, exc |-> NoExc]

ResolveFail(e) == [ok |-> FALSE, val |-> <<>>, exc |-> e]

\* the replacement text of a name found in env_dict
replacement_of(env_dict, match) ==
    IF dict_get(env_dict, match).t = "none" THEN <<>> ELSE py_str(dict_get(env_dict, match))

RECURSIVE resolve_matches(_, _, _, _, _, _, _)

\* a resolver that substitutes the replacement as it stands, references and all
resolve_replacement_flat(raw, match, depth, resolved_vars, env_dict, os_environ) ==
    Resolved(raw)

\* a resolver that does not count the nesting of the replacements it resolves
resolve_replacement_uncounted(raw, match, depth, resolved_vars, env_dict, os_environ) ==
    IF is_variable(raw)
    THEN resolve_matches(raw, findall(raw, 1), 1, depth, resolved_vars \cup {match},
                         env_dict, os_environ)
    ELSE Resolved(raw)

\* the replacement raw of match, resolved in turn when it holds references
resolve_replacement(raw, match, depth, resolved_vars, env_dict, os_environ) ==
    IF is_variable(raw)
    THEN resolve_matches(raw, findall(raw, 1), 1, depth + 1, resolved_vars \cup {match},
                         env_dict, os_environ)
    ELSE Resolved(raw)

\* a substitution that keeps the name among the names being resolved when it
\* goes on to the matches after it
substitute_match_keeping(val, matches, i, depth, resolved_vars, env_dict, os_environ, sub) ==
    IF ~sub.ok THEN sub
    ELSE resolve_matches(replace(val, reference(matches[i]), sub.val), matches, i + 1,
                         depth, resolved_vars \cup {matches[i]}, env_dict, os_environ)

\* val with matches[i] replaced by the resolved replacement sub, then the
\* matches after it
substitute_match(val, matches, i, depth, resolved_vars, env_dict, os_environ, sub) ==
    IF ~sub.ok THEN sub
    ELSE resolve_matches(replace(val, reference(matches[i]), sub.val), matches, i + 1,
                         depth, resolved_vars, env_dict, os_environ)

\* resolve_recursively: matches[i..] are the names still to substitute in val,
\* resolved_vars the names being resolved by the enclosing calls
resolve_matches(val, matches, i, depth, resolved_vars, env_dict, os_environ) ==
    IF depth > MaxDepth THEN ResolveFail(EnvistParseError("CircularOrTooDeep"))
    ELSE IF i > Len(matches) THEN Resolved(val)
    ELSE IF matches[i] \in resolved_vars THEN ResolveFail(EnvistParseError("Circular"))
    ELSE IF dict_has(env_dict, matches[i])
         THEN substitute_match(val, matches, i, depth, resolved_vars, env_dict, os_environ,
                               resolve_replacement(replacement_of(env_dict, matches[i]),
                                                   matches[i], depth, resolved_vars,
                                                   env_dict, os_environ))
    ELSE resolve_matches(replace(val, reference(matches[i]),
                                 environ_get(os_environ, matches[i])),
                         matches, i + 1, depth, resolved_vars, env_dict, os_environ)

\* Envist._resolve_variable_with_env, for a str
resolve_variable_with_env(value, env_dict, os_environ) ==
    resolve_matches(value, findall(value, 1), 1, 0, {}, env_dict, os_environ)

----------------------------------------------------------------------------
(* utils/type_casters.py: TypeCaster                                       *)

EnvistCastError(what) == Exc("EnvistCastError", what)

TypeNode(type, args) == [ok |-> TRUE, type |-> type, args |-> args, exc |-> NoExc]

TypeFail(what) == [ok |-> FALSE, type |-> <<>>, args |-> <<>>, exc |-> EnvistCastError(what)]

\* the simple type names _parse_type_syntax supports
supported_types ==
    { <<"i","n","t">>, <<"f","l","o","a","t">>, <<"b","o","o","l">>, <<"s","t","r">>,
      <<"l","i","s","t">>, <<"a","r","r","a","y">>, <<"d","i","c","t">>,
      <<"t","u","p","l","e">>, <<"s","e","t">>, <<"c","s","v">>,
      <<"c","o","m","m","a","_","s","e","p","a","r","a","t","e","d">>,
      <<"j","s","o","n">> }

\* the part read so far, dropped when blank
type_arg(current) == IF strip(current) # <<>> THEN <<strip(current)>> ELSE <<>>

\* TypeCaster._split_type_args: the parts of args_str[i..] between the commas
\* outside angle brackets, current being the part read so far
RECURSIVE split_type_args_from(_, _, _, _)
split_type_args_from(args_str, i, current, bracket_count) ==
    IF i > Len(args_str) THEN type_arg(current)
    ELSE IF args_str[i] = "<"
         THEN split_type_args_from(args_str, i + 1, Append(current, "<"), bracket_count + 1)
    ELSE IF args_str[i] = ">"
         THEN split_type_args_from(args_str, i + 1, Append(current, ">"), bracket_count - 1)
    ELSE IF args_str[i] = "," /\ bracket_count = 0
         THEN type_arg(current) \o split_type_args_from(args_str, i + 1, <<>>, bracket_count)
    ELSE split_type_args_from(args_str, i + 1, Append(current, args_str[i]), bracket_count)

split_type_args(args_str) ==
    IF strip(args_str) = <<>> THEN <<>> ELSE split_type_args_from(args_str, 1, <<>>, 0)

RECURSIVE parse_type_syntax(_)

\* list<T>, set<T>, tuple<T> with the parsed inner type
sequence_type(base_type, inner_type) ==
    IF inner_type.ok THEN TypeNode(base_type, <<inner_type>>) ELSE inner_type

\* dict<K, V> with the parsed key and value types
dict_type(base_type, key_type, value_type) ==
    IF ~key_type.ok THEN key_type
    ELSE IF ~value_type.ok THEN value_type
    ELSE TypeNode(base_type, <<key_type, value_type>>)

dict_type_of(base_type, inner_parts) ==
    IF Len(inner_parts) # 2 THEN TypeFail("DictNeedsTwoArguments")
    ELSE dict_type(base_type, parse_type_syntax(strip(inner_parts[1])),
                   parse_type_syntax(strip(inner_parts[2])))

\* the nested branch of _parse_type_syntax; re.match(r"^(\w+)<(.+)>$") takes
\* the base before the first "<" and the inner text up to the final ">"
nested_type(type_str, base, inner) ==
    IF ~(/\ base # <<>>
         /\ \A i \in 1..Len(base) : base[i] \in Letters \cup Digits \cup {"_"}
         /\ type_str[Len(type_str)] = ">"
         /\ inner # <<>>)
    THEN TypeFail("InvalidTypeSyntax")
    ELSE IF lower(base) \in {<<"l","i","s","t">>, <<"s","e","t">>, <<"t","u","p","l","e">>}
         THEN sequence_type(lower(base), parse_type_syntax(strip(inner)))
    ELSE IF lower(base) = <<"d","i","c","t">>
         THEN dict_type_of(lower(base), split_type_args(inner))
    ELSE TypeFail("UnsupportedNestedType")

\* the nested branch reading the inner text up to the first ">" only, as a
\* pattern without the final anchor would
nested_type_to_first_close(type_str, lt) ==
    nested_type(Slice(type_str, 1, find(type_str, ">")), Slice(type_str, 1, lt - 1),
                Slice(type_str, lt + 1, find(type_str, ">") - 1))

nested_type_at(type_str, lt) ==
    nested_type(type_str, Slice(type_str, 1, lt - 1),
                Slice(type_str, lt + 1, Len(type_str) - 1))

\* _parse_type_syntax on the stripped type
parse_stripped_type(type_str) ==
    IF HasChar(type_str, "<") /\ HasChar(type_str, ">")
    THEN nested_type_at(type_str, find(type_str, "<"))
    ELSE IF HasChar(type_str, "<") \/ HasChar(type_str, ">")
         THEN TypeFail("InvalidTypeSyntax")
    ELSE IF lower(type_str) \notin supported_types THEN TypeFail("UnsupportedType")
    ELSE TypeNode(lower(type_str), <<>>)

\* TypeCaster._parse_type_syntax
parse_type_syntax(raw_type_str) == parse_stripped_type(strip(raw_type_str))

CastOk(v) == [ok |-> TRUE, v |-> v, exc |-> NoExc]

CastFail(what) == [ok |-> FALSE, v |-> NoneV, exc |-> EnvistCastError(what)]

\* the value of a run of digits, most significant first
RECURSIVE DigitsValue(_)
DigitsValue(ds) ==
    IF ds = <<>> THEN 0 ELSE 10 * DigitsValue(Slice(ds, 1, Len(ds) - 1)) + DigitValue(ds[Len(ds)])

\* the literals int() accepts: digits, single underscores between digits
IntLiteral(s) ==
    /\ s # <<>>
    /\ \A i \in 1..Len(s) : s[i] \in Digits \cup {"_"}
    /\ s[1] # "_" /\ s[Len(s)] # "_"
    /\ \A i \in 1..(Len(s) - 1) : ~(s[i] = "_" /\ s[i + 1] = "_")

\* int() on the digits body, negated when negative
int_of_body(body, negative) ==
    IF IntLiteral(body)
    THEN CastOk(IntV(IF negative THEN -DigitsValue(RemoveChar(body, "_"))
                     ELSE DigitsValue(RemoveChar(body, "_"))))
    ELSE CastFail("InvalidLiteral")

\* int() on a stripped str: a sign is allowed
int_of_stripped(s) ==
    IF s # <<>> /\ s[1] \in {"+", "-"} THEN int_of_body(Tail(s), s[1] = "-")
    ELSE int_of_body(s, FALSE)

\* int(s) for a str: surrounding whitespace is allowed
int_of_str(raw) == int_of_stripped(strip(raw))

\* the strings taken as true when single letters count as well
truthy_strings_with_letters ==
    { <<"t","r","u","e">>, <<"1">>, <<"y","e","s">>, <<"o","n">>, <<"y">>, <<"t">> }

truthy_strings == { <<"t","r","u","e">>, <<"1">>, <<"y","e","s">>, <<"o","n">> }

\* TypeCaster._smart_split(text, delimiter): the parts of text[i..] between
\* the delimiters outside brackets, braces and quotes, blank parts dropped; current is
\* the part read so far and quote_char the open quote ("" outside quotes)
RECURSIVE smart_split_from(_, _, _, _, _, _, _)
smart_split_from(text, delimiter, i, current, bracket_count, brace_count, quote_char) ==
    IF i > Len(text) THEN type_arg(current)
    ELSE IF text[i] \in {"\"", "'"}
         THEN smart_split_from(text, delimiter, i + 1, Append(current, text[i]), bracket_count, brace_count,
                               IF quote_char = "" THEN text[i]
                               ELSE IF text[i] = quote_char THEN "" ELSE quote_char)
    ELSE IF quote_char # ""
         THEN smart_split_from(text, delimiter, i + 1, Append(current, text[i]), bracket_count,
                               brace_count, quote_char)
    ELSE IF text[i] = "["
         THEN smart_split_from(text, delimiter, i + 1, Append(current, "["), bracket_count + 1,
                               brace_count, quote_char)
    ELSE IF text[i] = "]"
         THEN smart_split_from(text, delimiter, i + 1, Append(current, "]"), bracket_count - 1,
                               brace_count, quote_char)
    ELSE IF text[i] = "{"
         THEN smart_split_from(text, delimiter, i + 1, Append(current, "{"), bracket_count,
                               brace_count + 1, quote_char)
    ELSE IF text[i] = "}"
         THEN smart_split_from(text, delimiter, i + 1, Append(current, "}"), bracket_count,
                               brace_count - 1, quote_char)
    ELSE IF text[i] = delimiter /\ bracket_count = 0 /\ brace_count = 0
         THEN type_arg(current)
                  \o smart_split_from(text, delimiter, i + 1, <<>>, bracket_count, brace_count, quote_char)
    ELSE smart_split_from(text, delimiter, i + 1, Append(current, text[i]), bracket_count, brace_count,
                          quote_char)

\* the parts of text[i..] between all the delimiters, blank parts dropped
RECURSIVE split_everywhere_from(_, _, _, _)
split_everywhere_from(text, delimiter, i, current) ==
    IF i > Len(text) THEN type_arg(current)
    ELSE IF text[i] = delimiter
         THEN type_arg(current) \o split_everywhere_from(text, delimiter, i + 1, <<>>)
    ELSE split_everywhere_from(text, delimiter, i + 1, Append(current, text[i]))

\* a split at every delimiter, whatever encloses it
split_everywhere(text, delimiter) == split_everywhere_from(text, delimiter, 1, <<>>)

smart_split(text, delimiter) == smart_split_from(text, delimiter, 1, <<>>, 0, 0, "")

\* the result of reading a value as a list: its items, or the failure
SmartList(items) == [ok |-> TRUE, items |-> items]

NotAList == [ok |-> FALSE, items |-> <<>>]

\* a JSON integer: -?(0|[1-9][0-9]*)
json_int_body(body) ==
    /\ body # <<>>
    /\ \A i \in 1..Len(body) : body[i] \in Digits
    /\ Len(body) = 1 \/ body[1] # "0"

json_int(s) == IF s # <<>> /\ s[1] = "-" THEN json_int_body(Tail(s)) ELSE json_int_body(s)

\* a JSON string without escapes
json_string(s) ==
    /\ Len(s) >= 2
    /\ s[1] = "\"" /\ s[Len(s)] = "\""
    /\ \A i \in 2..(Len(s) - 1) : s[i] \notin {"\"", "\\"}

json_scalar(s) == json_int(s) \/ json_string(s)

\* the value json.loads gives a JSON integer or string
json_scalar_value(s) ==
    IF json_string(s) THEN StrV(Slice(s, 2, Len(s) - 1))
    ELSE IF s[1] = "-" THEN IntV(-DigitsValue(Tail(s))) ELSE IntV(DigitsValue(s))

\* the element texts of a JSON array body: text[i..] cut at the commas outside
\* strings, current being the element read so far
RECURSIVE json_elements_from(_, _, _, _)
json_elements_from(text, i, current, in_string) ==
    IF i > Len(text) THEN <<strip(current)>>
    ELSE IF text[i] = "," /\ ~in_string
         THEN <<strip(current)>> \o json_elements_from(text, i + 1, <<>>, FALSE)
    ELSE json_elements_from(text, i + 1, Append(current, text[i]),
                            IF text[i] = "\"" THEN ~in_string ELSE in_string)

json_values(elements) == [i \in 1..Len(elements) |-> json_scalar_value(elements[i])]

json_array_of(elements) ==
    IF \A i \in 1..Len(elements) : json_scalar(elements[i])
    THEN SmartList(json_values(elements))
    ELSE NotAList

\* json.loads(value) when it gives a list, for a text whose array elements are
\* integers and strings: no nested array, object, fraction or literal name
json_loads_list(value) ==
    IF ~(Len(value) >= 2 /\ value[1] = "[" /\ value[Len(value)] = "]") THEN NotAList
    ELSE IF strip(Slice(value, 2, Len(value) - 1)) = <<>> THEN SmartList(<<>>)
    ELSE json_array_of(json_elements_from(Slice(value, 2, Len(value) - 1), 1, <<>>, FALSE))

\* TypeCaster._remove_quotes of the parts that _smart_split gives
unquoted_items(items) == [i \in 1..Len(items) |-> StrV(remove_quotes(strip(items[i])))]

\* the comma-separated branch of _cast_to_smart_list, outer brackets removed
split_list(value) ==
    IF strip(value) = <<>> THEN SmartList(<<>>)
    ELSE SmartList(unquoted_items(smart_split(value, ",")))

\* _cast_to_smart_list past the JSON attempt, for a text without "[[", "{"
\* and "}": the bracket notation and the comma-separated text
bracket_or_split_list(value) ==
    IF Len(value) >= 1 /\ value[1] = "[" /\ value[Len(value)] = "]"
    THEN split_list(Slice(value, 2, Len(value) - 1))
    ELSE split_list(value)

smart_list_of_text(value, parsed) ==
    IF parsed.ok THEN parsed ELSE bracket_or_split_list(value)

\* TypeCaster._cast_to_smart_list: a list as it is, a tuple as a list, a str
\* read as JSON or split at its commas; list() of an int, a bool or None fails
cast_to_smart_list(value) ==
    CASE value.t \in {"list", "tuple"} -> SmartList(value.items)
      [] value.t = "str" -> smart_list_of_text(strip(value.s), json_loads_list(strip(value.s)))
      [] value.t \in {"int", "bool", "none"} -> NotAList

\* the items of a list, as a set
set_of(items) == {items[i] : i \in 1..Len(items)}

\* TypeCaster._cast_simple_type, for the types int, bool, str, list, array,
\* tuple and set
cast_simple_type(value, type_name) ==
    CASE type_name = <<"i","n","t">> ->
            (CASE value.t = "str"  -> int_of_str(value.s)
               [] value.t = "int"  -> CastOk(value)
               [] value.t = "bool" -> CastOk(IntV(value.n))
               [] value.t = "none" -> CastFail("InvalidLiteral"))
      [] type_name = <<"b","o","o","l">> ->
            (CASE value.t = "str"  -> CastOk(BoolV(lower(value.s) \in truthy_strings))
               [] value.t = "int"  -> CastOk(BoolV(value.n # 0))
               [] value.t = "bool" -> CastOk(value)
               [] value.t = "none" -> CastOk(BoolV(FALSE)))
      [] type_name = <<"s","t","r">> -> CastOk(StrV(py_str(value)))
      [] type_name \in {<<"l","i","s","t">>, <<"a","r","r","a","y">>} ->
            IF cast_to_smart_list(value).ok
            THEN CastOk(ListV(cast_to_smart_list(value).items))
            ELSE CastFail("NotIterable")
      [] type_name = <<"t","u","p","l","e">> ->
            IF cast_to_smart_list(value).ok
            THEN CastOk(CollectionV("tuple", cast_to_smart_list(value).items))
            ELSE CastFail("NotIterable")
      [] type_name = <<"s","e","t">> ->
            IF cast_to_smart_list(value).ok
            THEN CastOk(CollectionV("set", set_of(cast_to_smart_list(value).items)))
            ELSE CastFail("NotIterable")

\* list, tuple or set of the casted items
collection_of(base_type, casted_items) ==
    IF base_type = <<"l","i","s","t">> THEN ListV(casted_items)
    ELSE IF base_type = <<"t","u","p","l","e">> THEN CollectionV("tuple", casted_items)
    ELSE CollectionV("set", set_of(casted_items))

RECURSIVE apply_type_casting(_, _)

\* [_apply_type_casting(item, inner_type) for item in collection], from item i
\* on: the casted items, or the failure of the first item that cannot be cast
RECURSIVE cast_items(_, _, _, _)

\* the items after item i, an item that cannot be cast being left out
cast_next_item_skipping(collection, i, inner_type, casted, r) ==
    cast_items(collection, i + 1, inner_type, IF r.ok THEN Append(casted, r.v) ELSE casted)

\* the items after item i, whose cast gave r
cast_next_item(collection, i, inner_type, casted, r) ==
    IF r.ok THEN cast_items(collection, i + 1, inner_type, Append(casted, r.v)) ELSE r

cast_items(collection, i, inner_type, casted) ==
    IF i > Len(collection) THEN CastOk(ListV(casted))
    ELSE cast_next_item(collection, i, inner_type, casted,
                        apply_type_casting(collection[i], inner_type))

\* the collection of the casted items r, or the failure r
collection_result(base_type, r) ==
    IF r.ok THEN CastOk(collection_of(base_type, r.v.items)) ELSE r

\* TypeCaster._apply_type_casting, for a simple type and for list<T>, set<T>
\* and tuple<T>
apply_type_casting(value, type_info) ==
    CASE type_info.args = <<>> -> cast_simple_type(value, type_info.type)
      [] Len(type_info.args) = 1 ->
            IF ~cast_to_smart_list(value).ok THEN CastFail("NotIterable")
            ELSE collection_result(type_info.type,
                                   cast_items(cast_to_smart_list(value).items, 1,
                                              type_info.args[1], <<>>))

\* cast_value once the type is parsed: a parse failure is a cast error
cast_parsed(value, parsed_type) ==
    IF ~parsed_type.ok THEN CastFail(parsed_type.exc.what)
    ELSE apply_type_casting(value, parsed_type)

\* TypeCaster.cast_value with cast_type a type name
cast_value(value, cast_type) == cast_parsed(value, parse_type_syntax(cast_type))

----------------------------------------------------------------------------
(* core/parser.py: Envist._load_env                                        *)

FileNotFoundError == Exc("FileNotFoundError", "FileNotFound")

FirstPass(ok, raw_env, cast_types, exc) ==
    [ok |-> ok, raw_env |-> raw_env, cast_types |-> cast_types, exc |-> exc]

RECURSIVE first_pass(_, _, _, _, _)

\* one line of the first pass, r what parse_line_with_cast made of it: an
\* error gets the line number i, a parsed line goes to raw_env and cast_types
first_pass_line(clean_lines, i, raw_env, cast_types, accept_empty, r) ==
    IF ~r.ok THEN FirstPass(FALSE, raw_env, cast_types, [r.exc EXCEPT !.line = i])
    ELSE first_pass(clean_lines, i + 1,
                    dict_set(raw_env, r.key, StrV(r.value)),
                    IF r.typed /\ r.cast_type # <<>>
                    THEN dict_set(cast_types, r.key, r.cast_type)
                    ELSE cast_types,
                    accept_empty)

\* the first pass: the lines clean_lines[i..] parsed into raw_env and cast_types
first_pass(clean_lines, i, raw_env, cast_types, accept_empty) ==
    IF i > Len(clean_lines) THEN FirstPass(TRUE, raw_env, cast_types, NoExc)
    ELSE first_pass_line(clean_lines, i, raw_env, cast_types, accept_empty,
                         parse_line_with_cast(clean_lines[i], accept_empty))

Loaded(env, os_environ, exc) == [env |-> env, environ |-> os_environ, exc |-> exc]

\* the exception of the second pass, as _load_env re-raises it
processing_error(key, e) == [cls |-> "EnvistParseError", what |-> e.what, line |-> 0, key |-> key]

RECURSIVE second_pass(_, _, _, _, _, _, _)

\* the cast value of raw_env[i] is stored, or its cast error raised
store_casted(raw_env, i, cast_types, env, os_environ, accept_empty, auto_cast, casted) ==
    IF ~casted.ok THEN Loaded(env, os_environ, processing_error(raw_env[i].k, casted.exc))
    ELSE second_pass(raw_env, i + 1, cast_types,
                     dict_set(env, raw_env[i].k, casted.v),
                     environ_set(os_environ, raw_env[i].k, environ_str(casted.v)),
                     accept_empty, auto_cast)

\* the resolved value of raw_env[i] is cast and stored; an empty one is
\* stored as None when empty values are not accepted
store_value(raw_env, i, cast_types, env, os_environ, accept_empty, auto_cast, value) ==
    IF value # <<>> \/ accept_empty
    THEN store_casted(raw_env, i, cast_types, env, os_environ, accept_empty, auto_cast,
                      IF auto_cast /\ dict_has(cast_types, raw_env[i].k) /\ value # <<>>
                      THEN cast_value(StrV(value), dict_get(cast_types, raw_env[i].k))
                      ELSE CastOk(StrV(value)))
    ELSE second_pass(raw_env, i + 1, cast_types,
                     dict_set(env, raw_env[i].k, NoneV),
                     environ_set(os_environ, raw_env[i].k, <<>>),
                     accept_empty, auto_cast)

store_resolved(raw_env, i, cast_types, env, os_environ, accept_empty, auto_cast, resolved) ==
    IF ~resolved.ok
    THEN Loaded(env, os_environ, processing_error(raw_env[i].k, resolved.exc))
    ELSE store_value(raw_env, i, cast_types, env, os_environ, accept_empty, auto_cast,
                     resolved.val)

\* a second pass that stores the raw value as it stands
resolve_item_verbatim(raw, raw_env, os_environ) == Resolved(raw)

\* the value of a raw_env item with its references resolved against raw_env
resolve_item(raw, raw_env, os_environ) ==
    IF is_variable(raw) THEN resolve_variable_with_env(raw, raw_env, os_environ)
    ELSE Resolved(raw)

\* the second pass: the items raw_env[i..] resolved, cast and stored
second_pass(raw_env, i, cast_types, env, os_environ, accept_empty, auto_cast) ==
    IF i > Len(raw_env) THEN Loaded(env, os_environ, NoExc)
    ELSE store_resolved(raw_env, i, cast_types, env, os_environ, accept_empty, auto_cast,
                        resolve_item(raw_env[i].v.s, raw_env, os_environ))

\* _load_env after the first pass
load_parsed(first, env, os_environ, accept_empty, auto_cast) ==
    IF ~first.ok THEN Loaded(env, os_environ, first.exc)
    ELSE second_pass(first.raw_env, 1, first.cast_types, env, os_environ,
                     accept_empty, auto_cast)

\* Envist._load_env: what it leaves in self._env and os.environ, and the
\* exception it raises
load_env(f, env, os_environ, accept_empty, auto_cast) ==
    IF ~f.exists THEN Loaded(env, os_environ, FileNotFoundError)
    ELSE load_parsed(first_pass(filter_lines(f.lines), 1, <<>>, <<>>, accept_empty),
                     env, os_environ, accept_empty, auto_cast)

----------------------------------------------------------------------------
(* core/parser.py: the Envist instances and their operations               *)

Instances == {1, 2}

\* an instance before its constructor has run
NewInstance == [status |-> "new", env |-> <<>>, accept_empty |-> FALSE, auto_cast |-> TRUE]

Call(op, i, exc) == [op |-> op, i |-> i, exc |-> exc]

NoCall == Call("none", 0, NoExc)

\* Envist.__init__(path, accept_empty, auto_cast): an exception of _load_env
\* leaves no instance behind, only what the load wrote to os.environ
Construct(i, accept_empty, auto_cast) ==
    /\ inst[i].status = "new"
    /\ \E r \in {load_env(file, <<>>, environ, accept_empty, auto_cast)} :
           /\ inst' = [inst EXCEPT ![i] =
                          [status |-> IF r.exc = NoExc THEN "ready" ELSE "failed",
                           env |-> r.env, accept_empty |-> accept_empty,
                           auto_cast |-> auto_cast]]
           /\ environ' = r.environ
           /\ last' = Call("construct", i, r.exc)
    /\ UNCHANGED <<file, input, output>>

\* set() once the value is resolved
set_resolved(env, os_environ, key, value, resolved) ==
    IF ~resolved.ok THEN Loaded(env, os_environ, resolved.exc)
    ELSE Loaded(dict_set(env, key, IF value.t = "str" THEN StrV(resolved.val) ELSE value),
                environ_set(os_environ, key,
                            environ_str(IF value.t = "str" THEN StrV(resolved.val) ELSE value)),
                NoExc)

\* what set(key, value) leaves in self._env and os.environ, and what it raises
set_result(env, os_environ, key, value) ==
    IF ~validate_key(key) THEN Loaded(env, os_environ, EnvistParseError("InvalidKey"))
    ELSE set_resolved(env, os_environ, key, value,
                      IF value.t = "str" /\ is_variable(value.s)
                      THEN resolve_variable_with_env(value.s, env, os_environ)
                      ELSE Resolved(value.s))

\* a set on a typed map that every loaded instance shares
SetShared(i, key, value) ==
    /\ inst[i].status = "ready"
    /\ \E r \in {set_result(inst[i].env, environ, key, value)} :
           /\ inst' = [j \in Instances |->
                          IF inst[j].status = "ready" THEN [inst[j] EXCEPT !.env = r.env]
                          ELSE inst[j]]
           /\ environ' = r.environ
           /\ last' = Call("set", i, r.exc)
    /\ UNCHANGED <<file, input, output>>

\* Envist.set(key, value)
Set(i, key, value) ==
    /\ inst[i].status = "ready"
    /\ \E r \in {set_result(inst[i].env, environ, key, value)} :
           /\ inst' = [inst EXCEPT ![i].env = r.env]
           /\ environ' = r.environ
           /\ last' = Call("set", i, r.exc)
    /\ UNCHANGED <<file, input, output>>

RECURSIVE set_all_result(_, _, _, _)

\* set_all after the item data[n] was set with result r
set_all_next(data, n, r) ==
    IF r.exc # NoExc THEN r ELSE set_all_result(r.env, r.environ, data, n + 1)

\* the loop of set_all over the items data[n..]
set_all_result(env, os_environ, data, n) ==
    IF n > Len(data) THEN Loaded(env, os_environ, NoExc)
    ELSE set_all_next(data, n, set_result(env, os_environ, data[n].k, data[n].v))

\* Envist.set_all(data), data a dict
SetAll(i, data) ==
    /\ inst[i].status = "ready"
    /\ \E r \in {set_all_result(inst[i].env, environ, data, 1)} :
           /\ inst' = [inst EXCEPT ![i].env = r.env]
           /\ environ' = r.environ
           /\ last' = Call("set_all", i, r.exc)
    /\ UNCHANGED <<file, input, output>>

\* Envist.set_all(data), data not a dict
SetAllNotDict(i) ==
    /\ inst[i].status = "ready"
    /\ last' = Call("set_all", i, Exc("EnvistTypeError", "NotADict"))
    /\ UNCHANGED <<file, environ, inst, input, output>>

\* self._env.get(key, default)
get_value(env, key, default) == IF dict_has(env, key) THEN dict_get(env, key) ELSE default

\* what get leaves behind and returns, or raises
GetResult(env, os_environ, value, exc) ==
    [env |-> env, environ |-> os_environ, value |-> value, exc |-> exc]

\* a get that keeps the cast value under the key
get_casted_storing(env, os_environ, key, casted) ==
    IF casted.ok THEN GetResult(dict_set(env, key, casted.v), os_environ, casted.v, NoExc)
    ELSE GetResult(env, os_environ, NoneV, EnvistCastError(casted.exc.what))

\* get once the value is cast: an exception of the cast is raised again as
\* an EnvistCastError
get_casted(env, os_environ, key, casted) ==
    IF casted.ok THEN GetResult(env, os_environ, casted.v, NoExc)
    ELSE GetResult(env, os_environ, NoneV, EnvistCastError(casted.exc.what))

\* Envist.get(key, default=default, cast=cast), cast being a type name or
\* the empty str for no cast
get_result(env, os_environ, key, default, cast) ==
    IF cast # <<>> /\ get_value(env, key, default) # NoneV
    THEN get_casted(env, os_environ, key, cast_value(get_value(env, key, default), cast))
    ELSE GetResult(env, os_environ, get_value(env, key, default), NoExc)

Get(i, key, default, cast) ==
    /\ inst[i].status = "ready"
    /\ \E r \in {get_result(inst[i].env, environ, key, default, cast)} :
           /\ inst' = [inst EXCEPT ![i].env = r.env]
           /\ environ' = r.environ
           /\ last' = Call("get", i, r.exc)
           /\ output' = [at |-> "got", value |-> r.value]
    /\ UNCHANGED <<file, input>>

EnvistValueError == Exc("EnvistValueError", "NotFound")

\* Envist.unset(key)
Unset(i, key) ==
    /\ inst[i].status = "ready"
    /\ IF ~dict_has(inst[i].env, key)
       THEN /\ last' = Call("unset", i, EnvistValueError)
            /\ UNCHANGED <<inst, environ>>
       ELSE /\ inst' = [inst EXCEPT ![i].env = dict_pop(@, key)]
            /\ environ' = environ_pop(environ, key)
            /\ last' = Call("unset", i, NoExc)
    /\ UNCHANGED <<file, input, output>>

\* the loop of unset_all over the keys data_list[n..]
RECURSIVE unset_list_result(_, _, _, _)
unset_list_result(env, os_environ, data_list, n) ==
    IF n > Len(data_list) THEN Loaded(env, os_environ, NoExc)
    ELSE IF ~dict_has(env, data_list[n]) THEN Loaded(env, os_environ, EnvistValueError)
    ELSE unset_list_result(dict_pop(env, data_list[n]),
                           environ_pop(os_environ, data_list[n]), data_list, n + 1)

\* os.environ without the keys of env
RECURSIVE environ_pop_all(_, _, _)
environ_pop_all(os_environ, env, n) ==
    IF n > Len(env) THEN os_environ
    ELSE environ_pop_all(environ_pop(os_environ, env[n].k), env, n + 1)

\* what unset_all(data_list) leaves behind; given is FALSE for data_list = None
unset_all_result(env, os_environ, given, data_list) ==
    IF given /\ data_list # <<>>
    THEN unset_list_result(env, os_environ, data_list, 1)
    ELSE Loaded(<<>>, environ_pop_all(os_environ, env, 1), NoExc)

\* Envist.unset_all(data_list)
UnsetAll(i, given, data_list) ==
    /\ inst[i].status = "ready"
    /\ \E r \in {unset_all_result(inst[i].env, environ, given, data_list)} :
           /\ inst' = [inst EXCEPT ![i].env = r.env]
           /\ environ' = r.environ
           /\ last' = Call("unset_all", i, r.exc)
    /\ UNCHANGED <<file, input, output>>

\* a reload that loads the file over the typed map as it stands
reload_result_keeping(f, env, os_environ, accept_empty, auto_cast) ==
    load_env(f, env, os_environ, accept_empty, auto_cast)

\* what reload() leaves behind: the instance's keys leave os.environ, the
\* typed map is cleared, and the file is loaded again
reload_result(f, env, os_environ, accept_empty, auto_cast) ==
    load_env(f, <<>>, environ_pop_all(os_environ, env, 1), accept_empty, auto_cast)

\* Envist.reload()
Reload(i) ==
    /\ inst[i].status = "ready"
    /\ \E r \in {reload_result(file, inst[i].env, environ,
                              inst[i].accept_empty, inst[i].auto_cast)} :
           /\ inst' = [inst EXCEPT ![i].env = r.env]
           /\ environ' = r.environ
           /\ last' = Call("reload", i, r.exc)
    /\ UNCHANGED <<file, input, output>>

\* the characters of keys in code point order
CodePoints ==
    <<"0", "1", "2", "3", "4", "5", "6", "7", "8", "9",
      "A", "B", "C", "D", "E", "F", "G", "H", "I", "J", "K", "L", "M",
      "N", "O", "P", "Q", "R", "S", "T", "U", "V", "W", "X", "Y", "Z", "_",
      "a", "b", "c", "d", "e", "f", "g", "h", "i", "j", "k", "l", "m",
      "n", "o", "p", "q", "r", "s", "t", "u", "v", "w", "x", "y", "z">>

ord(c) == CHOOSE i \in 1..Len(CodePoints) : CodePoints[i] = c

\* a < b for two str of characters of keys
RECURSIVE str_less(_, _)
str_less(a, b) ==
    IF b = <<>> THEN FALSE
    ELSE IF a = <<>> THEN TRUE
    ELSE IF a[1] # b[1] THEN ord(a[1]) < ord(b[1])
    ELSE str_less(Tail(a), Tail(b))

\* the item put in its place among the sorted items
RECURSIVE insert_sorted(_, _)
insert_sorted(item, items) ==
    IF items = <<>> THEN <<item>>
    ELSE IF str_less(item.k, items[1].k) THEN <<item>> \o items
    ELSE <<items[1]>> \o insert_sorted(item, Tail(items))

\* dict(sorted(self._env.items())): the keys of a dict are distinct
RECURSIVE sorted_items(_)
sorted_items(env) ==
    IF env = <<>> THEN <<>> ELSE insert_sorted(env[1], sorted_items(Tail(env)))

\* f"{key}={value}" or f"{key} = {value}"
save_line(item, pretty) ==
    item.k \o (IF pretty THEN <<" ", "=", " ">> ELSE <<"=">>) \o py_str(item.v)

\* the file save writes, for values without a line break
save_lines(env_to_save, pretty) ==
    [n \in 1..Len(env_to_save) |-> save_line(env_to_save[n], pretty)]

\* Envist.save(pretty, sort_keys)
Save(i, pretty, sort_keys) ==
    /\ inst[i].status = "ready"
    /\ file' = FileOf(save_lines(IF sort_keys THEN sorted_items(inst[i].env) ELSE inst[i].env,
                                 pretty))
    /\ last' = Call("save", i, NoExc)
    /\ UNCHANGED <<environ, inst, input, output>>

\* the file at the path is rewritten or removed by its owner
WriteFile(f) ==
    /\ file # f
    /\ file' = f
    /\ last' = Call("write_file", 0, NoExc)
    /\ UNCHANGED <<environ, inst, input, output>>

----------------------------------------------------------------------------
(* The inputs of the model: lines, files, keys and values.                 *)

\* A=x
Line_A_x == <<"A", "=", "x">>

\* A=${A}
Line_A_refA == <<"A", "=", "$", "{", "A", "}">>

\* A=${B}
Line_A_refB == <<"A", "=", "$", "{", "B", "}">>

\* B=${A}
Line_B_refA == <<"B", "=", "$", "{", "A", "}">>

\* B=${C}y
Line_B_refC_y == <<"B", "=", "$", "{", "C", "}", "y">>

\* C=x
Line_C_x == <<"C", "=", "x">>

\* B<int>=07
Line_B_int_07 == <<"B", "<", "i", "n", "t", ">", "=", "0", "7">>

\* B:int=x
Line_B_colon_int_x == <<"B", ":", "i", "n", "t", "=", "x">>

\* C<int>=x
Line_C_int_x == <<"C", "<", "i", "n", "t", ">", "=", "x">>

\* A=
Line_A_empty == <<"A", "=">>

\* # c
Line_comment == <<"#", " ", "c">>

\* 1=x
Line_1_x == <<"1", "=", "x">>

\* A B
Line_A_space_B == <<"A", " ", "B">>

\* A=y
Line_A_y == <<"A", "=", "y">>

\* the longest file the loads of SpecLoad read
MaxLines == 3

\* the longest list of keys given to set_all and unset_all
MaxKeys == 2

\* the sequences over S of length 0..n
SeqsUpTo(S, n) == UNION {[1..m -> S] : m \in 0..n}

LoadLines ==
    { Line_A_x, Line_A_refA, Line_A_refB, Line_B_refA, Line_B_refC_y, Line_C_x,
      Line_B_int_07, Line_B_colon_int_x, Line_C_int_x, Line_A_empty, Line_comment,
      Line_1_x, Line_A_space_B }

LoadFiles == {NoFile} \cup {FileOf(ls) : ls \in SeqsUpTo(LoadLines, MaxLines)}

\* the files the instances of Spec start from and their owner writes later
OpFiles ==
    { NoFile, FileOf(<<Line_A_x>>), FileOf(<<Line_A_y, Line_B_refA>>),
      FileOf(<<Line_B_int_07>>), FileOf(<<Line_A_refA>>), FileOf(<<Line_A_empty>>) }

\* os.environ before any instance exists
InitEnviron == [x \in {<<"U">>, <<"A">>} |-> IF x = <<"U">> THEN <<"u">> ELSE <<"o","s">>]

SetKeys == {<<"A">>, <<"B">>, <<"1">>}

SetValues == {StrV(<<"x">>), StrV(<<"$","{","A","}">>), StrV(<<"$","{","U","}">>), IntV(7), NoneV}

\* the dicts given to set_all: up to MaxKeys items with distinct keys
SetAllData ==
    { d \in SeqsUpTo([k : SetKeys, v : {StrV(<<"x">>), StrV(<<"$","{","A","}">>)}], MaxKeys) :
        \A m, n \in 1..Len(d) : m # n => d[m].k # d[n].k }

UnsetKeys == {<<"A">>, <<"B">>}

----------------------------------------------------------------------------
(* The system: one file, the process environment and the instances.        *)

Idle == [at |-> "idle"]

SystemInit(files) ==
    /\ file \in files
    /\ environ = InitEnviron
    /\ inst = [i \in Instances |-> NewInstance]
    /\ last = NoCall
    /\ input = Idle
    /\ output = Idle

\* the calls instance i can make
InstanceNext(i) ==
    \/ \E accept_empty \in BOOLEAN, auto_cast \in BOOLEAN : Construct(i, accept_empty, auto_cast)
    \/ \E key \in SetKeys, value \in SetValues : Set(i, key, value)
    \/ \E data \in SetAllData : SetAll(i, data)
    \/ SetAllNotDict(i)
    \/ \E key \in UnsetKeys : Unset(i, key)
    \/ \E given \in BOOLEAN, data_list \in SeqsUpTo(UnsetKeys, MaxKeys) :
           (given \/ data_list = <<>>) /\ UnsetAll(i, given, data_list)
    \/ Reload(i)

Init == SystemInit(OpFiles)

Next ==
    \/ InstanceNext(1)
    \/ \E f \in OpFiles : WriteFile(f)

\* one instance on a file its owner may rewrite
Spec == Init /\ [][Next]_vars

InitLoad == SystemInit(LoadFiles)

NextLoad == \E accept_empty \in BOOLEAN, auto_cast \in BOOLEAN : Construct(1, accept_empty, auto_cast)

\* the constructor on every file of LoadFiles
SpecLoad == InitLoad /\ [][NextLoad]_vars

----------------------------------------------------------------------------
(* The line validator alone: parse_line_with_cast on composed lines.       *)

\* the keys, annotations and values the lines are composed of
LineKeys == { <<"K">>, <<"K", "2">> }

LineAnnotations ==
    { <<>>, <<"<", "i", "n", "t", ">">>, <<"<", "s", "t", "r", ">">>,
      <<":", "i", "n", "t">>, <<":", "s", "t", "r">>, <<"<", "i", " ", "n", ">">>,
      <<":", "a", "-", "b">> }

LineValues ==
    { <<>>, <<" ">>, <<"\"", "\"">>, <<"'", "'">>, <<" ", "\"", "\"", " ">>,
      <<"x">>, <<"\"", "x", "\"">> }

\* a line to parse: an assignment key annotation "=" value, or a bare key
LineInputs ==
    [form : {"assignment"}, key : LineKeys, annotation : LineAnnotations,
     value : LineValues, accept_empty : BOOLEAN]
    \cup [form : {"bare"}, key : LineKeys, annotation : {<<>>}, value : {<<>>},
          accept_empty : BOOLEAN]

\* the text of a line to parse
LineText(in) ==
    IF in.form = "bare" THEN in.key ELSE in.key \o in.annotation \o <<"=">> \o in.value

InitLine ==
    /\ file = NoFile
    /\ environ = InitEnviron
    /\ inst = [i \in Instances |-> NewInstance]
    /\ last = NoCall
    /\ input \in {[at |-> "line", in |-> in] : in \in LineInputs}
    /\ output = Idle

\* EnvValidator.parse_line_with_cast(line, accept_empty) on the input line
ParseLine ==
    /\ input.at = "line"
    /\ output.at = "idle"
    /\ output' = [at |-> "parsed",
                  r |-> parse_line_with_cast(LineText(input.in), input.in.accept_empty)]
    /\ UNCHANGED <<file, environ, inst, last, input>>

\* the line validator on every line of LineInputs
SpecLine == InitLine /\ [][ParseLine]_vars

----------------------------------------------------------------------------
(* Properties of the load: references.                                     *)

Range(q) == {q[i] : i \in 1..Len(q)}

\* the first pass of the constructor on the file f
RawEnvOf(f, accept_empty) == first_pass(filter_lines(f.lines), 1, <<>>, <<>>, accept_empty)

\* the keys of raw_env the value of key k refers to
Refs(raw_env, k) == dict_keys(raw_env) \cap Range(findall(dict_get(raw_env, k).s, 1))

\* the keys reached from the keys S in at most n more steps of Refs
RECURSIVE ReachFrom(_, _, _)
ReachFrom(raw_env, S, n) ==
    IF n = 0 THEN S
    ELSE ReachFrom(raw_env, S \cup UNION {Refs(raw_env, x) : x \in S}, n - 1)

\* the keys the value of k refers to, directly or through other keys
Reached(raw_env, k) == ReachFrom(raw_env, Refs(raw_env, k), Len(raw_env))

\* the value of k reaches a cycle: a key it reaches refers back to itself
ReachesCycle(raw_env, k) == \E n \in Reached(raw_env, k) : n \in Reached(raw_env, n)

CircularReported(e) ==
    e.cls = "EnvistParseError" /\ e.what \in {"Circular", "CircularOrTooDeep"}

\* the item n of raw_env reaches a cycle: resolving it reports the cycle, and
\* the load raised e, the cycle or the error of an item before it
CycleRaises(raw_env, n, e) ==
    /\ CircularReported(resolve_variable_with_env(raw_env[n].v.s, raw_env, InitEnviron).exc)
    /\ e.cls = "EnvistParseError"
    /\ \E m \in 1..n : e.key = raw_env[m].k /\ (m = n => CircularReported(e))

CyclesRaise(first, e) ==
    first.ok =>
        \A n \in 1..Len(first.raw_env) :
            ReachesCycle(first.raw_env, first.raw_env[n].k) => CycleRaises(first.raw_env, n, e)

\* C1: when the value of a key of the file reaches a direct or an indirect
\* reference cycle, resolving that value raises a ParseError that reports a
\* circular reference, and the constructor returns no instance: it raises a
\* ParseError, the circular one unless a key before it in the file failed first
C1_CycleRaisesParseError ==
    (last.op = "construct" /\ file.exists)
        => CyclesRaise(RawEnvOf(file, inst[1].accept_empty), last.exc)

\* the indirect cycle A=${B}, B=${A} was loaded and reported for A
C1_IndirectCycleLoaded ==
    /\ last.op = "construct"
    /\ file = FileOf(<<Line_A_refB, Line_B_refA>>)
    /\ CircularReported(last.exc)
    /\ last.exc.key = <<"A">>
    /\ inst[1].status = "failed"

\* val from index i with every reference replaced: by the expansion of the raw
\* value of the key it names, or by os.environ's value for a name that is no
\* key; fuel bounds the nesting
RECURSIVE Expand(_, _, _, _)
Expand(val, i, raw_env, fuel) ==
    IF i > Len(val) THEN <<>>
    ELSE IF /\ fuel > 0 /\ i + 3 <= Len(val) /\ val[i] = "$" /\ val[i + 1] = "{"
            /\ \E k \in (i + 3)..Len(val) : val[k] = "}"
         THEN (IF dict_has(raw_env, Slice(val, i + 2, first_close(val, i + 3) - 1))
               THEN Expand(dict_get(raw_env, Slice(val, i + 2, first_close(val, i + 3) - 1)).s,
                           1, raw_env, fuel - 1)
               ELSE environ_get(InitEnviron, Slice(val, i + 2, first_close(val, i + 3) - 1)))
              \o Expand(val, first_close(val, i + 3) + 1, raw_env, fuel)
    ELSE <<val[i]>> \o Expand(val, i + 1, raw_env, fuel)

\* what the load stores for the expanded text of a key
StoredFor(text, first, key, accept_empty, auto_cast) ==
    IF text = <<>> THEN (IF accept_empty THEN StrV(<<>>) ELSE NoneV)
    ELSE IF auto_cast /\ dict_has(first.cast_types, key)
         THEN cast_value(StrV(text), dict_get(first.cast_types, key)).v
    ELSE StrV(text)

\* a dict as the set of its items
AsMap(d) == {<<d[i].k, d[i].v>> : i \in 1..Len(d)}

\* lines with the lines i and i + 1 exchanged
Swap(lines, i) ==
    [j \in 1..Len(lines) |-> IF j = i THEN lines[i + 1] ELSE IF j = i + 1 THEN lines[i] ELSE lines[j]]

\* the file with two neighbouring lines exchanged loads to the same map
SameWhenSwapped(lines, env, accept_empty, auto_cast, swapped) ==
    swapped.exc = NoExc /\ AsMap(swapped.env) = AsMap(env)

OrderIndependent(lines, env, accept_empty, auto_cast) ==
    \A i \in 1..(Len(lines) - 1) :
        SameWhenSwapped(lines, env, accept_empty, auto_cast,
                        load_env(FileOf(Swap(lines, i)), <<>>, InitEnviron,
                                 accept_empty, auto_cast))

FullySubstituted(first, env, accept_empty, auto_cast) ==
    \A n \in 1..Len(env) :
        /\ env[n].v.t = "str" => ~is_variable(env[n].v.s)
        /\ env[n].v = StoredFor(Expand(dict_get(first.raw_env, env[n].k).s, 1, first.raw_env,
                                       Len(first.raw_env) + 1),
                                first, env[n].k, accept_empty, auto_cast)

\* C2: after a load that succeeds, every key holds its value with every
\* reference replaced and none left, the text put in place of a reference being
\* the raw value of the key it names (07 for B<int>=07, never the cast 7); and
\* when every line defines a key of its own, exchanging lines of the file
\* changes nothing of what is stored, so a reference to a key of a later line
\* resolves as one to a key of an earlier line
C2_ChainFullySubstituted ==
    (last.op = "construct" /\ last.exc = NoExc)
        => /\ FullySubstituted(RawEnvOf(file, inst[1].accept_empty), inst[1].env,
                               inst[1].accept_empty, inst[1].auto_cast)
           /\ Len(inst[1].env) = Len(filter_lines(file.lines))
                  => OrderIndependent(file.lines, inst[1].env,
                                      inst[1].accept_empty, inst[1].auto_cast)

\* the chain A=${B}, B=${C}y, C=x, each reference to a later line, was loaded
C2_ForwardChainLoaded ==
    /\ last.op = "construct"
    /\ last.exc = NoExc
    /\ file = FileOf(<<Line_A_refB, Line_B_refC_y, Line_C_x>>)
    /\ dict_get(inst[1].env, <<"A">>) = StrV(<<"x", "y">>)
    /\ dict_get(inst[1].env, <<"B">>) = StrV(<<"x", "y">>)

\* C3, as the specification states it: a load that fails because an annotated
\* value cannot be coerced to its type raises an EnvistCastError
C3_CastErrorSurfaced ==
    (last.op = "construct" /\ last.exc.what = "InvalidLiteral")
        => last.exc.cls = "EnvistCastError"

----------------------------------------------------------------------------
(* Properties of the typed map and os.environ.                             *)

\* every key of env has its stringified value in os_environ, "" for None
Mirrored(env, os_environ) ==
    \A n \in 1..Len(env) :
        /\ env[n].k \in DOMAIN os_environ
        /\ os_environ[env[n].k] = (IF env[n].v.t = "none" THEN <<>> ELSE py_str(env[n].v))

\* the keys a step of unset or unset_all removed are absent from os.environ
RemovedAreAbsent ==
    last'.op \in {"unset", "unset_all"}
        => \A k \in dict_keys(inst[1].env) \ dict_keys(inst'[1].env) : k \notin DOMAIN environ'

\* C4: with one instance, after the load and after every call of set, set_all,
\* unset, unset_all and reload, each key of the typed map has an os.environ
\* entry equal to its stringified value ("" for None), and each key that unset
\* or unset_all removed is absent from os.environ
C4_EnvironMirrorsTypedMap ==
    [][(inst'[1].status = "ready" => Mirrored(inst'[1].env, environ')) /\ RemovedAreAbsent]_vars

\* A, which os.environ held before the load, was loaded and then unset
C4_LoadedKeyUnset ==
    /\ inst[1].status = "ready"
    /\ last = Call("unset", 1, NoExc)
    /\ ~dict_has(inst[1].env, <<"A">>)
    /\ <<"A">> \notin DOMAIN environ
    /\ dict_has(inst[1].env, <<"B">>)

\* C5, as the specification states it: every key stored in the typed map
\* matches ^[A-Za-z_][A-Za-z0-9_]*$
C5_StoredKeysMatchPattern ==
    inst[1].status = "ready" => \A k \in dict_keys(inst[1].env) : validate_key(k)

----------------------------------------------------------------------------
(* Properties of the load: errors and empty values.                        *)

\* the kept line i of the file is line number i of the file
Kept(lines, i) == filter_line(lines[i]) # <<>>

\* the lines of the file an error e of the load is about: the first line that
\* does not parse, or the lines that define the key e names
LinesOfError(lines, first, accept_empty, e) ==
    IF ~first.ok
    THEN { i \in 1..Len(lines) :
             /\ Kept(lines, i)
             /\ ~parse_line_with_cast(filter_line(lines[i]), accept_empty).ok
             /\ \A j \in 1..(i - 1) :
                    Kept(lines, j) => parse_line_with_cast(filter_line(lines[j]), accept_empty).ok }
    ELSE { i \in 1..Len(lines) :
             Kept(lines, i) /\ parse_line_with_cast(filter_line(lines[i]), accept_empty).key = e.key }

\* C6, as the specification states it: a ParseError of the load carries the
\* 1-based number, in the file, of the line it is about
C6_ErrorCarriesFileLine ==
    (last.op = "construct" /\ last.exc.cls = "EnvistParseError")
        => last.exc.line \in LinesOfError(file.lines, RawEnvOf(file, inst[1].accept_empty),
                                          inst[1].accept_empty, last.exc)

\* C7, as the specification states it: when the load raises the circular
\* reference error it has written nothing to the typed map or to os.environ
C7_NothingStoredBeforeCycleError ==
    (last.op = "construct" /\ CircularReported(last.exc))
        => inst[1].env = <<>> /\ environ = InitEnviron

EmptyAreNone(raw_env, env) ==
    \A n \in 1..Len(raw_env) : raw_env[n].v.s = <<>> => dict_get(env, raw_env[n].k) = NoneV

\* C8, as the specification states it: with accept_empty, a key whose value is
\* empty in the file is stored as None
C8_EmptyStoredAsNone ==
    (last.op = "construct" /\ last.exc = NoExc /\ inst[1].accept_empty)
        => EmptyAreNone(RawEnvOf(file, TRUE).raw_env, inst[1].env)

\* the lines of a file without its lines A=
WithoutEmpty(lines) == SelectSeq(lines, LAMBDA l : l # Line_A_empty)

LoadedAs(expected) == expected.exc = NoExc => last.exc = NoExc /\ inst[1].env = expected.env

\* C9, as the specification states it: without accept_empty, a file with the
\* line A= loads as the file without that line does
C9_EmptyValueLineSkipped ==
    (/\ last.op = "construct" /\ ~inst[1].accept_empty /\ file.exists
     /\ Line_A_empty \in Range(file.lines))
        => LoadedAs(load_env(FileOf(WithoutEmpty(file.lines)), <<>>, InitEnviron,
                             FALSE, inst[1].auto_cast))

----------------------------------------------------------------------------
(* Properties of the line validator.                                       *)

\* the annotations of LineAnnotations the validator rejects
InvalidAnnotations == { <<":", "a", "-", "b">> }

\* the annotations of LineAnnotations that name the type str
StrAnnotations == { <<"<", "s", "t", "r", ">">>, <<":", "s", "t", "r">> }

\* the value of a line as the validator reads it: trimmed unless annotated
\* str, then without its quotes
ValueAsRead(in) ==
    remove_quotes(IF in.annotation \in StrAnnotations THEN in.value ELSE strip(in.value))

Accepted(r, value) == r.ok /\ r.value = value

RejectedAs(r, what) == ~r.ok /\ r.exc = EnvistParseError(what)

EmptyValuePolicy(in, r) ==
    /\ in.form = "bare" => Accepted(r, <<>>)
    /\ (in.form = "assignment" /\ in.annotation \in InvalidAnnotations)
           => RejectedAs(r, "InvalidTypeSyntax")
    /\ (in.form = "assignment" /\ in.annotation \notin InvalidAnnotations)
           => IF ValueAsRead(in) = <<>> /\ ~in.accept_empty
              THEN RejectedAs(r, "EmptyValue")
              ELSE Accepted(r, ValueAsRead(in))

----------------------------------------------------------------------------
(* The load of files with annotated lines that have no value.              *)

\* E:int=
Line_E_colon_int_empty == <<"E", ":", "i", "n", "t", "=">>

\* E<bool>=
Line_E_bool_empty == <<"E", "<", "b", "o", "o", "l", ">", "=">>

\* L<list<int>>=
Line_L_list_int_empty == <<"L", "<", "l", "i", "s", "t", "<", "i", "n", "t", ">", ">", "=">>

\* D<dict<str, str>>=
Line_D_dict_empty ==
    <<"D", "<", "d", "i", "c", "t", "<", "s", "t", "r", ",", " ", "s", "t", "r", ">", ">", "=">>

\* L<int>=5
Line_L_int_5 == <<"L", "<", "i", "n", "t", ">", "=", "5">>

TypedLines ==
    { Line_E_colon_int_empty, Line_E_bool_empty, Line_L_list_int_empty, Line_D_dict_empty,
      Line_L_int_5, Line_A_x }

TypedFiles == {FileOf(ls) : ls \in SeqsUpTo(TypedLines, MaxLines)}

InitTyped == SystemInit(TypedFiles)

\* the constructor on every file of TypedFiles
SpecTyped == InitTyped /\ [][NextLoad]_vars

ScalarTypes == { <<"i","n","t">>, <<"f","l","o","a","t">>, <<"b","o","o","l">>, <<"s","t","r">> }

\* the keys of the first pass with an empty value and a declared type whose
\* base is one of kinds
TypedEmptyKeys(first, kinds) ==
    { k \in dict_keys(first.raw_env) :
        /\ dict_get(first.raw_env, k).s = <<>>
        /\ dict_has(first.cast_types, k)
        /\ parse_type_syntax(dict_get(first.cast_types, k)).type \in kinds }

\* C11, as the specification states it: a file with a line that declares a
\* scalar type and has an empty value makes the load raise a cast error,
\* under either setting of accept_empty
C11_TypedEmptyRaisesCastError ==
    (/\ last.op = "construct" /\ file.exists /\ inst[1].auto_cast
     /\ RawEnvOf(file, TRUE).ok
     /\ TypedEmptyKeys(RawEnvOf(file, TRUE), ScalarTypes) # {})
        => last.exc.cls = "EnvistCastError"

\* the empty collection of the declared kind
EmptyCollection(type_info) ==
    IF type_info.type = <<"d","i","c","t">> THEN DictV(<<>>) ELSE ListV(<<>>)

EmptyCollectionsStored(first, env) ==
    \A k \in TypedEmptyKeys(first, {<<"l","i","s","t">>, <<"d","i","c","t">>}) :
        dict_get(env, k) = EmptyCollection(parse_type_syntax(dict_get(first.cast_types, k)))

\* C12, as the specification states it: with accept_empty, a key that declares
\* a list or a dict type and has an empty value is stored as the empty list or
\* the empty dict
C12_EmptyCollectionStored ==
    (last.op = "construct" /\ last.exc = NoExc /\ inst[1].accept_empty /\ inst[1].auto_cast)
        => EmptyCollectionsStored(RawEnvOf(file, TRUE), inst[1].env)

----------------------------------------------------------------------------
(* The type parser alone: _parse_type_syntax on composed annotations.      *)

\* the most arguments of a composed annotation
MaxTypeArgs == 3

TypeBases == { <<"l","i","s","t">>, <<"d","i","c","t">>, <<"t","u","p","l","e">>, <<"f","o","o">> }

TypeOpens == { <<>>, <<"<">>, <<"<", "<">> }

TypeCloses == { <<>>, <<">">>, <<">", ">">>, <<">", "<", "s", "t", "r", ">">> }

\* the arguments: int, list<int>, dict<str,int>, the empty one, <int, int>
TypeAtoms ==
    { <<"i","n","t">>, <<"l","i","s","t","<","i","n","t",">">>,
      <<"d","i","c","t","<","s","t","r",",","i","n","t",">">>, <<>>,
      <<"<","i","n","t">>, <<"i","n","t",">">> }

TypeInputs ==
    [base : TypeBases, open : TypeOpens, args : SeqsUpTo(TypeAtoms, MaxTypeArgs),
     close : TypeCloses]

\* parts joined by commas
RECURSIVE JoinArgs(_)
JoinArgs(parts) ==
    IF parts = <<>> THEN <<>>
    ELSE IF Len(parts) = 1 THEN parts[1]
    ELSE parts[1] \o <<",">> \o JoinArgs(Tail(parts))

\* the text of a composed annotation
TypeText(in) == in.base \o in.open \o JoinArgs(in.args) \o in.close

InitType ==
    /\ file = NoFile
    /\ environ = InitEnviron
    /\ inst = [i \in Instances |-> NewInstance]
    /\ last = NoCall
    /\ input \in {[at |-> "type", in |-> in] : in \in TypeInputs}
    /\ output = Idle

\* TypeCaster._parse_type_syntax(type_str) on the input annotation
ParseType ==
    /\ input.at = "type"
    /\ output.at = "idle"
    /\ output' = [at |-> "parsed", r |-> parse_type_syntax(TypeText(input.in))]
    /\ UNCHANGED <<file, environ, inst, last, input>>

\* the type parser on every annotation of TypeInputs
SpecType == InitType /\ [][ParseType]_vars

\* the number of "<" less the number of ">" among the first i characters of s
BracketDepth(s, i) ==
    Cardinality({j \in 1..i : s[j] = "<"}) - Cardinality({j \in 1..i : s[j] = ">"})

Balanced(s) ==
    /\ \A i \in 1..Len(s) : BracketDepth(s, i) >= 0
    /\ BracketDepth(s, Len(s)) = 0

\* the bracket groups of s opened outside every other group
TopGroups(s) == {i \in 1..Len(s) : s[i] = "<" /\ BracketDepth(s, i - 1) = 0}

EmptyBrackets(s) == \E i \in 1..(Len(s) - 1) : s[i] = "<" /\ s[i + 1] = ">"

Malformed(s) == ~Balanced(s) \/ Cardinality(TopGroups(s)) > 1 \/ EmptyBrackets(s)

\* C13: _parse_type_syntax raises an EnvistCastError, and returns no type
\* tree, for every annotation whose angle brackets are unbalanced, that has
\* more than one top-level bracket group, or that has empty brackets
C13_MalformedAnnotationRejected ==
    (output.at = "parsed" /\ Malformed(TypeText(input.in)))
        => ~output.r.ok /\ output.r.exc.cls = "EnvistCastError"

\* list<list<int>><str>, with two top-level groups, was rejected
C13_TwoGroupsRejected ==
    /\ output.at = "parsed"
    /\ TypeText(input.in) = <<"l","i","s","t","<","l","i","s","t","<","i","n","t",">",">",
                              "<","s","t","r",">">>
    /\ ~output.r.ok
    /\ output.r.exc = EnvistCastError("InvalidTypeSyntax")

\* a type tree whose nodes are simple types, list, set or tuple nodes with
\* one inner type, or dict nodes with a key type and a value type
RECURSIVE WellFormedTree(_)
WellFormedTree(tree) ==
    \/ tree.args = <<>>
    \/ /\ tree.type \in {<<"l","i","s","t">>, <<"s","e","t">>, <<"t","u","p","l","e">>}
       /\ Len(tree.args) = 1
       /\ WellFormedTree(tree.args[1])
    \/ /\ tree.type = <<"d","i","c","t">>
       /\ Len(tree.args) = 2
       /\ WellFormedTree(tree.args[1])
       /\ WellFormedTree(tree.args[2])

\* the text between the first "<" and the final character of s
ArgumentText(s) == Slice(s, find(s, "<") + 1, Len(s) - 1)

\* the commas of text outside every bracket group
TopCommas(text) == {i \in 1..Len(text) : text[i] = "," /\ BracketDepth(text, i) = 0}

\* the number of arguments text holds when split at its top-level commas
ArgumentCount(text) == IF text = <<>> THEN 0 ELSE Cardinality(TopCommas(text)) + 1

\* s is base<arguments> and the number of arguments is not the one base takes
WrongArity(s) ==
    /\ HasChar(s, "<")
    /\ s[Len(s)] = ">"
    /\ \/ /\ lower(Slice(s, 1, find(s, "<") - 1))
                 \in {<<"l","i","s","t">>, <<"s","e","t">>, <<"t","u","p","l","e">>}
          /\ ArgumentCount(ArgumentText(s)) # 1
       \/ /\ lower(Slice(s, 1, find(s, "<") - 1)) = <<"d","i","c","t">>
          /\ ArgumentCount(ArgumentText(s)) # 2

\* C14, as the specification states it: every type tree _parse_type_syntax
\* returns is well-formed, and a list, set or tuple given 0 or 2+ arguments,
\* or a dict given a number of arguments other than 2, raises an
\* EnvistCastError, the arguments being split at the top-level commas
C14_ArityChecked ==
    output.at = "parsed" =>
        /\ output.r.ok => WellFormedTree(output.r)
        /\ WrongArity(TypeText(input.in))
               => ~output.r.ok /\ output.r.exc.cls = "EnvistCastError"

----------------------------------------------------------------------------
(* The type caster alone: cast_value on composed values.                   *)

\* the most tokens of a composed value
MaxTokens == 3

CastTypes ==
    { <<"l","i","s","t","<","i","n","t",">">>, <<"t","u","p","l","e","<","i","n","t",">">>,
      <<"s","e","t","<","i","n","t",">">>, <<"l","i","s","t","<","s","t","r",">">>,
      <<"l","i","s","t","<","b","o","o","l",">">> }

\* the tokens: 1, 2, 3, a, the empty one, " 07" and "5" in double quotes
CastTokens ==
    { <<"1">>, <<"2">>, <<"3">>, <<"a">>, <<>>, <<" ","0","7">>, <<"\"","5","\"">> }

\* a value is its tokens joined by commas, in square brackets when wrap
CollectionInputs ==
    [type : CastTypes, tokens : SeqsUpTo(CastTokens, MaxTokens), wrap : BOOLEAN]

CollectionText(in) ==
    IF in.wrap THEN <<"[">> \o JoinArgs(in.tokens) \o <<"]">> ELSE JoinArgs(in.tokens)

\* the strings given to the bool type, each with its lower-cased form
BoolTexts ==
    { [text |-> <<"t","r","u","e">>, lowered |-> <<"t","r","u","e">>],
      [text |-> <<"T","R","U","E">>, lowered |-> <<"t","r","u","e">>],
      [text |-> <<"T","r","u","e">>, lowered |-> <<"t","r","u","e">>],
      [text |-> <<"y","e","s">>, lowered |-> <<"y","e","s">>],
      [text |-> <<"Y","e","S">>, lowered |-> <<"y","e","s">>],
      [text |-> <<"o","n">>, lowered |-> <<"o","n">>],
      [text |-> <<"O","N">>, lowered |-> <<"o","n">>],
      [text |-> <<"1">>, lowered |-> <<"1">>],
      [text |-> <<"F","A","L","S","E">>, lowered |-> <<"f","a","l","s","e">>],
      [text |-> <<"f","a","l","s","e">>, lowered |-> <<"f","a","l","s","e">>],
      [text |-> <<"n","o">>, lowered |-> <<"n","o">>],
      [text |-> <<"o","f","f">>, lowered |-> <<"o","f","f">>],
      [text |-> <<"0">>, lowered |-> <<"0">>],
      [text |-> <<"m","a","y","b","e">>, lowered |-> <<"m","a","y","b","e">>],
      [text |-> <<"y">>, lowered |-> <<"y">>],
      [text |-> <<"t">>, lowered |-> <<"t">>],
      [text |-> <<"2">>, lowered |-> <<"2">>],
      [text |-> <<"0","1">>, lowered |-> <<"0","1">>],
      [text |-> <<" ","t","r","u","e">>, lowered |-> <<" ","t","r","u","e">>],
      [text |-> <<"o","n"," ">>, lowered |-> <<"o","n"," ">>],
      [text |-> <<"t","r","u","e","1">>, lowered |-> <<"t","r","u","e","1">>],
      [text |-> <<>>, lowered |-> <<>>] }

\* the spellings of the bool type
BoolTypes == { <<"b","o","o","l">>, <<"B","o","o","l">>, <<" ","b","o","o","l"," ">> }

CastOf(value, type, in) == [at |-> "cast", value |-> value, type |-> type, in |-> in]

CastInputs ==
    {CastOf(StrV(CollectionText(in)), in.type, in) : in \in CollectionInputs}
        \cup {CastOf(StrV(in.text), type, in) : in \in BoolTexts, type \in BoolTypes}
        \cup {CastOf(BoolV(b), type, [text |-> <<>>, lowered |-> <<>>]) :
                  b \in BOOLEAN, type \in BoolTypes}

InitCast ==
    /\ file = NoFile
    /\ environ = InitEnviron
    /\ inst = [i \in Instances |-> NewInstance]
    /\ last = NoCall
    /\ input \in CastInputs
    /\ output = Idle

\* TypeCaster.cast_value(value, cast_type) on the input value and type
Cast ==
    /\ input.at = "cast"
    /\ output.at = "idle"
    /\ output' = [at |-> "cast", r |-> cast_value(input.value, input.type)]
    /\ UNCHANGED <<file, environ, inst, last, input>>

\* the type caster on every value and type of CastInputs
SpecCast == InitCast /\ [][Cast]_vars

\* every item of the list can be cast to the inner type
AllCastable(items, inner_type) ==
    \A i \in 1..Len(items) : apply_type_casting(items[i], inner_type).ok

\* v holds, as a list, a tuple or a set, the items cast to the inner type
HoldsCasted(v, kind, items, inner_type) ==
    /\ v.t = kind
    /\ kind \in {"list", "tuple"} =>
           /\ Len(v.items) = Len(items)
           /\ \A i \in 1..Len(items) : v.items[i] = apply_type_casting(items[i], inner_type).v
    /\ kind = "set" =>
           v.items = {apply_type_casting(items[i], inner_type).v : i \in 1..Len(items)}

KindOf(type_info) ==
    CASE type_info.type = <<"l","i","s","t">> -> "list"
      [] type_info.type = <<"t","u","p","l","e">> -> "tuple"
      [] type_info.type = <<"s","e","t">> -> "set"

\* r is the cast of every item, or a cast error when an item cannot be cast
ElementsCoerced(r, type_info, items) ==
    IF AllCastable(items, type_info.args[1])
    THEN r.ok /\ HoldsCasted(r.v, KindOf(type_info), items, type_info.args[1])
    ELSE ~r.ok /\ r.exc.cls = "EnvistCastError"

\* the tokens that are not blank
RECURSIVE NonBlank(_)
NonBlank(tokens) ==
    IF tokens = <<>> THEN <<>>
    ELSE IF strip(tokens[1]) = <<>> THEN NonBlank(Tail(tokens))
    ELSE <<tokens[1]>> \o NonBlank(Tail(tokens))

\* a list or a tuple has one element for each token that is not blank
OnePerToken(r, tokens) ==
    (r.ok /\ r.v.t \in {"list", "tuple"}) => Len(r.v.items) = Len(NonBlank(tokens))

\* C15: casting a value to list<T>, tuple<T> or set<T> reads it as a list
\* (_cast_to_smart_list) and casts every item to T: a list or a tuple holds
\* the casted items one per token in the same order, a set holds them as a
\* set, and the cast raises an EnvistCastError when an item cannot be cast
C15_ElementsCoerced ==
    (output.at = "cast" /\ input.type \in CastTypes) =>
        /\ ElementsCoerced(output.r, parse_type_syntax(input.type),
                           cast_to_smart_list(input.value).items)
        /\ OnePerToken(output.r, input.in.tokens)

\* 1,2,3 cast to list<int> gave the integers [1, 2, 3]
C15_ListOfIntegers ==
    /\ output.at = "cast"
    /\ input.type = <<"l","i","s","t","<","i","n","t",">">>
    /\ input.value = StrV(<<"1", ",", "2", ",", "3">>)
    /\ output.r = CastOk(ListV(<<IntV(1), IntV(2), IntV(3)>>))

\* the lower-cased strings the specification takes as true
TrueWords == { <<"t","r","u","e">>, <<"1">>, <<"y","e","s">>, <<"o","n">> }

\* C16: casting a str to bool never fails and gives True exactly when the
\* lower-cased str is one of true, 1, yes, on; a bool is returned unchanged
C16_BoolCoercion ==
    (output.at = "cast" /\ input.type \in BoolTypes) =>
        IF input.value.t = "str"
        THEN output.r = CastOk(BoolV(input.in.lowered \in TrueWords))
        ELSE output.r = CastOk(input.value)

\* the str YeS was cast to True
C16_MixedCaseYesIsTrue ==
    /\ output.at = "cast"
    /\ input.type = <<"b","o","o","l">>
    /\ input.value = StrV(<<"Y","e","S">>)
    /\ output.r = CastOk(BoolV(TRUE))

----------------------------------------------------------------------------
(* The resolver alone: _resolve_variable_with_env on composed values.      *)

\* the names referred to: A and U may be keys of the context, Z never is
ResolveNames == { <<"A">>, <<"U">>, <<"Z">> }

\* what the context holds under a key: a str, an int, None, or the reference
\* ${Z}
ContextValues == { StrV(<<"x">>), IntV(7), NoneV, StrV(<<"$","{","Z","}">>) }

\* the contexts: A and U each absent or bound to one of ContextValues
ResolveContexts ==
    { SelectSeq(<<[k |-> <<"A">>, v |-> a], [k |-> <<"U">>, v |-> u]>>,
                LAMBDA e : e.v # StrV(<<"-">>)) :
          a \in ContextValues \cup {StrV(<<"-">>)}, u \in ContextValues \cup {StrV(<<"-">>)} }

\* the process environments: A, U and Z each absent or set
ResolveEnvirons ==
    { [n \in S |-> <<"o","s">> \o n] : S \in SUBSET ResolveNames }

\* the values: a reference to one name between a prefix and a suffix
ResolveValues == [prefix : {<<>>, <<"a">>}, name : ResolveNames, suffix : {<<>>, <<"b">>}]

ResolveText(in) == in.prefix \o reference(in.name) \o in.suffix

ResolveInputs == [value : ResolveValues, env_dict : ResolveContexts]

InitResolve ==
    /\ file = NoFile
    /\ environ \in ResolveEnvirons
    /\ inst = [i \in Instances |-> NewInstance]
    /\ last = NoCall
    /\ input \in {[at |-> "resolve", in |-> in] : in \in ResolveInputs}
    /\ output = Idle

\* Envist._resolve_variable_with_env(value, env_dict) under the os.environ
Resolve ==
    /\ input.at = "resolve"
    /\ output.at = "idle"
    /\ output' = [at |-> "resolved",
                  r |-> resolve_variable_with_env(ResolveText(input.in.value),
                                                  input.in.env_dict, environ)]
    /\ UNCHANGED <<file, environ, inst, last, input>>

\* the resolver on every value, context and process environment
SpecResolve == InitResolve /\ [][Resolve]_vars

\* the process environment's value of name, the empty str when it has none
FromEnviron(os_environ, name) == IF name \in DOMAIN os_environ THEN os_environ[name] ELSE <<>>

\* the text a context value stands for: nothing for None, the value of Z for
\* the reference ${Z}, the value as a str otherwise
ContextText(v, os_environ) ==
    IF v = NoneV THEN <<>>
    ELSE IF v = StrV(<<"$","{","Z","}">>) THEN FromEnviron(os_environ, <<"Z">>)
    ELSE IF v = IntV(7) THEN <<"7">>
    ELSE v.s

\* the text put in place of ${name}
Substituted(name, env_dict, os_environ) ==
    IF \E i \in 1..Len(env_dict) : env_dict[i].k = name
    THEN ContextText(env_dict[CHOOSE i \in 1..Len(env_dict) : env_dict[i].k = name].v,
                     os_environ)
    ELSE FromEnviron(os_environ, name)

\* C17: a reference ${NAME} is replaced by the context's value of NAME when
\* NAME is a key of the context, also when os.environ has NAME; otherwise by
\* os.environ's value of NAME; and by the empty str, without an error, when
\* neither has NAME
C17_ContextBeforeEnviron ==
    output.at = "resolved" =>
        /\ output.r.ok
        /\ output.r.val = input.in.value.prefix
                              \o Substituted(input.in.value.name, input.in.env_dict, environ)
                              \o input.in.value.suffix

\* a${A}b was resolved to axb under a context with A = x and an os.environ
\* with A = osA
C17_ContextValueWins ==
    /\ output.at = "resolved"
    /\ input.in.value = [prefix |-> <<"a">>, name |-> <<"A">>, suffix |-> <<"b">>]
    /\ input.in.env_dict = <<[k |-> <<"A">>, v |-> StrV(<<"x">>)]>>
    /\ <<"A">> \in DOMAIN environ
    /\ output.r = Resolved(<<"a", "x", "b">>)

----------------------------------------------------------------------------
(* The constructor on chains of references: A=v, B=${A}_x, C=${B}_x, ...   *)

\* the longest chain: the index of its last key, the first key having index 0
MaxChain == 13

ChainKeys == <<"A", "B", "C", "D", "E", "F", "G", "H", "I", "J", "K", "L", "M", "N", "O", "P">>

ChainKey(i) == <<ChainKeys[i + 1]>>

\* the line of key i: the literal v for key 0, a reference to key i - 1 and
\* the suffix for the others
ChainLine(i, suffix) ==
    IF i = 0 THEN <<"A", "=", "v">>
    ELSE ChainKey(i) \o <<"=">> \o reference(ChainKey(i - 1)) \o suffix

\* the index of the key at line j of a chain of keys 0..n
ChainIndex(in, j) == IF in.descending THEN in.n + 1 - j ELSE j - 1

ChainLines(in) == [j \in 1..(in.n + 1) |-> ChainLine(ChainIndex(in, j), in.suffix)]

ChainInputs == [n : 0..MaxChain, descending : BOOLEAN, suffix : {<<>>, <<"_", "x">>}]

InitChain ==
    /\ input \in {[at |-> "chain", in |-> in] : in \in ChainInputs}
    /\ file = FileOf(ChainLines(input.in))
    /\ environ = InitEnviron
    /\ inst = [i \in Instances |-> NewInstance]
    /\ last = NoCall
    /\ output = Idle

\* the constructor on every chain of ChainInputs
SpecChain == InitChain /\ [][NextLoad]_vars

\* the suffix i times
RECURSIVE Repeated(_, _)
Repeated(suffix, i) == IF i = 0 THEN <<>> ELSE suffix \o Repeated(suffix, i - 1)

\* the nested levels the value of key i needs: the value of key 1 is resolved
\* at depth 0, that of key i by calls at the depths 0..i-1
NestedLevels(i) == IF i = 0 THEN 0 ELSE i - 1

\* the lines whose key needs more than 10 nested levels
TooDeepLines(in) == {j \in 1..(in.n + 1) : NestedLevels(ChainIndex(in, j)) > 10}

FirstTooDeepKey(in) ==
    ChainKey(ChainIndex(in, CHOOSE j \in TooDeepLines(in) : \A m \in TooDeepLines(in) : j <= m))

ChainLoaded(in, env) ==
    /\ Len(env) = in.n + 1
    /\ \A i \in 0..in.n : dict_get(env, ChainKey(i)) = StrV(<<"v">> \o Repeated(in.suffix, i))

\* C18: the load of a chain raises the too-deep-nesting EnvistParseError
\* exactly when a key needs more than 10 nested levels, and raises it for the
\* first such key of the file; otherwise every key is resolved
C18_DepthCeiling ==
    (last.op = "construct" /\ input.at = "chain") =>
        IF TooDeepLines(input.in) = {}
        THEN last.exc = NoExc /\ ChainLoaded(input.in, inst[1].env)
        ELSE /\ last.exc.cls = "EnvistParseError"
             /\ last.exc.what = "CircularOrTooDeep"
             /\ last.exc.key = FirstTooDeepKey(input.in)

\* the chain A..N in file order was loaded and the load raised for M, the
\* first key that needs 11 nested levels
C18_ThirteenthKeyTooDeep ==
    /\ last.op = "construct"
    /\ input.at = "chain"
    /\ input.in = [n |-> 13, descending |-> FALSE, suffix |-> <<"_", "x">>]
    /\ last.exc.cls = "EnvistParseError"
    /\ last.exc.what = "CircularOrTooDeep"
    /\ last.exc.key = <<"M">>

----------------------------------------------------------------------------
(* The constructor and get.                                                *)

GetFiles ==
    { FileOf(<<Line_A_x>>), FileOf(<<Line_B_int_07>>), FileOf(<<Line_A_y, Line_B_refA>>),
      FileOf(<<Line_A_empty>>), FileOf(<<Line_L_int_5, Line_A_x>>), FileOf(<<Line_E_bool_empty>>) }

GetKeys == { <<"A">>, <<"B">>, <<"L">>, <<"Z">> }

GetDefaults == { NoneV, StrV(<<"d">>), IntV(3) }

\* no cast, int, bool, str, list<int> and the unsupported list<invalid_type>
GetCasts ==
    { <<>>, <<"i","n","t">>, <<"b","o","o","l">>, <<"s","t","r">>,
      <<"l","i","s","t","<","i","n","t",">">>,
      <<"l","i","s","t","<","i","n","v","a","l","i","d","_","t","y","p","e",">">> }

InitGet == SystemInit(GetFiles)

NextGet ==
    \/ \E accept_empty \in BOOLEAN, auto_cast \in BOOLEAN : Construct(1, accept_empty, auto_cast)
    \/ \E key \in GetKeys, default \in GetDefaults, cast \in GetCasts : Get(1, key, default, cast)

\* one instance, loaded and then read with get
SpecGet == InitGet /\ [][NextGet]_vars

\* a step of get leaves the typed map and os.environ as they were, and what
\* it raises is an EnvistCastError
GetChangesNothing ==
    last'.op = "get" =>
        /\ inst' = inst
        /\ environ' = environ
        /\ last'.exc # NoExc => last'.exc.cls = "EnvistCastError"

\* C19: get never modifies the typed map or os.environ; when the cast fails it
\* raises an EnvistCastError and the value stored under the key is the one
\* stored before the call
C19_GetChangesNothing == [][GetChangesNothing]_vars

\* get("A", cast="int") raised an EnvistCastError and A still holds x
C19_FailedCastKeepsValue ==
    /\ last = Call("get", 1, EnvistCastError("InvalidLiteral"))
    /\ file = FileOf(<<Line_A_x>>)
    /\ dict_get(inst[1].env, <<"A">>) = StrV(<<"x">>)
    /\ environ[<<"A">>] = <<"x">>

----------------------------------------------------------------------------
(* unset and unset_all with an absent key.                                 *)

\* a step of unset or unset_all that raises leaves the typed map and
\* os.environ as they were
FailedUnsetChangesNothing ==
    (last'.op \in {"unset", "unset_all"} /\ last'.exc # NoExc) =>
        /\ last'.exc = EnvistValueError
        /\ inst' = inst
        /\ environ' = environ

\* C20, as the specification states it: unset with an absent key, and
\* unset_all with a list naming an absent key, raise the value error and
\* remove no key from the typed map or os.environ
C20_FailedUnsetChangesNothing == [][FailedUnsetChangesNothing]_vars

----------------------------------------------------------------------------
(* The constructor, set, save and reload on files without annotations.     *)

\* A=" x"
Line_A_quoted_space_x == <<"A", "=", "\"", " ", "x", "\"">>

\* B=y
Line_B_y == <<"B", "=", "y">>

SaveFiles ==
    { FileOf(<<Line_A_x>>), FileOf(<<Line_A_quoted_space_x>>),
      FileOf(<<Line_A_y, Line_B_refA>>), FileOf(<<Line_B_y, Line_A_x>>) }

SaveKeys == { <<"A">>, <<"C">> }

SaveValues == { StrV(<<"x">>), StrV(<<"x", "=", "y">>), StrV(<<"#", "c">>) }

InitSave == SystemInit(SaveFiles)

NextSave ==
    \/ \E accept_empty \in BOOLEAN, auto_cast \in BOOLEAN : Construct(1, accept_empty, auto_cast)
    \/ \E key \in SaveKeys, value \in SaveValues : Set(1, key, value)
    \/ \E pretty \in BOOLEAN, sort_keys \in BOOLEAN : Save(1, pretty, sort_keys)
    \/ Reload(1)

\* one instance that is loaded, changed with set, saved and reloaded
SpecSave == InitSave /\ [][NextSave]_vars

\* the reload gave every key that held a str the same str
SameStrings(before, after) ==
    \A n \in 1..Len(before) :
        before[n].v.t = "str"
            => dict_has(after, before[n].k) /\ dict_get(after, before[n].k) = before[n].v

\* C21, as the specification states it: a reload that follows a save gives
\* every key whose value is a str stored without a type annotation the same
\* str value
C21_SaveReloadKeepsStrings ==
    [][(last.op = "save" /\ last'.op = "reload")
           => (last'.exc = NoExc /\ SameStrings(inst[1].env, inst'[1].env))]_vars

----------------------------------------------------------------------------
(* reload against a fresh load of the file.                                *)

\* the keys the lines of the file define
FileKeys(f, accept_empty) == dict_keys(RawEnvOf(f, accept_empty).raw_env)

\* the typed map env and os.environ after a reload of the file f by an
\* instance that held before: env is what a fresh load of f gives, and the
\* keys of before that f does not define are in neither
ReloadedAsFresh(f, before, env, os_environ, accept_empty, auto_cast) ==
    /\ load_env(f, <<>>, os_environ, accept_empty, auto_cast).exc = NoExc
    /\ env = load_env(f, <<>>, os_environ, accept_empty, auto_cast).env
    /\ \A k \in dict_keys(before) \ FileKeys(f, accept_empty) :
           ~dict_has(env, k) /\ k \notin DOMAIN os_environ

\* C22: after a reload that succeeds, the typed map is the one a fresh load
\* of the file as it is now gives, and the keys that were added with set or
\* loaded from the earlier file and are not in the file now are absent from
\* the typed map and from os.environ
C22_ReloadEqualsFreshLoad ==
    [][(last'.op = "reload" /\ last'.exc = NoExc)
           => ReloadedAsFresh(file', inst[1].env, inst'[1].env, environ',
                              inst'[1].accept_empty, inst'[1].auto_cast)]_vars

\* the file A=x was reloaded: the instance holds A = x alone, and B, which
\* set or an earlier file may have given it, is not in os.environ
C22_StaleKeyGone ==
    /\ last = Call("reload", 1, NoExc)
    /\ file = FileOf(<<Line_A_x>>)
    /\ inst[1].env = <<[k |-> <<"A">>, v |-> StrV(<<"x">>)]>>
    /\ <<"B">> \notin DOMAIN environ
    /\ environ[<<"A">>] = <<"x">>

----------------------------------------------------------------------------
(* Two instances on one file and one os.environ.                           *)

PairFiles == { FileOf(<<Line_A_x>>), FileOf(<<Line_A_y, Line_B_refA>>) }

PairKeys == { <<"A">>, <<"B">> }

PairValues == { StrV(<<"z">>), StrV(<<"$", "{", "A", "}">>) }

PairData == { <<[k |-> <<"A">>, v |-> StrV(<<"z">>)], [k |-> <<"B">>, v |-> StrV(<<"z">>)]>> }

PairLists == { <<>>, <<<<"A">>>>, <<<<"B">>, <<"A">>>> }

\* the calls instance i of the two can make
PairNext(i) ==
    \/ \E auto_cast \in BOOLEAN : Construct(i, FALSE, auto_cast)
    \/ \E key \in PairKeys, value \in PairValues : Set(i, key, value)
    \/ \E data \in PairData : SetAll(i, data)
    \/ \E key \in PairKeys : Unset(i, key)
    \/ \E given \in BOOLEAN, data_list \in PairLists :
           (given \/ data_list = <<>>) /\ UnsetAll(i, given, data_list)
    \/ Reload(i)

InitPair == SystemInit(PairFiles)

NextPair == \E i \in Instances : PairNext(i)

\* two instances whose calls interleave
SpecPair == InitPair /\ [][NextPair]_vars

\* a call of set, set_all, unset or unset_all leaves the typed map of every
\* instance but the caller as it was
OthersUnchanged ==
    last'.op \in {"set", "set_all", "unset", "unset_all"}
        => \A j \in Instances \ {last'.i} : inst'[j] = inst[j]

\* C23: the typed maps of two instances are isolated: a call of set,
\* set_all, unset or unset_all on one instance leaves the typed map of the
\* other unchanged
C23_TypedMapsIsolated == [][OthersUnchanged]_vars

\* both instances were loaded from A=x, instance 1 set A to z and instance 2
\* still holds A = x
C23_OtherKeepsLoadedValue ==
    /\ file = FileOf(<<Line_A_x>>)
    /\ last = Call("set", 1, NoExc)
    /\ inst[1].status = "ready" /\ inst[2].status = "ready"
    /\ inst[1].env = <<[k |-> <<"A">>, v |-> StrV(<<"z">>)]>>
    /\ inst[2].env = <<[k |-> <<"A">>, v |-> StrV(<<"x">>)]>>

\* C30, as the specification states it: with two instances sharing
\* os.environ, after every interleaving of their calls each key of an
\* instance's typed map has an os.environ entry equal to the stringified
\* value that instance holds for it
C30_EnvironMirrorsEveryInstance ==
    (/\ \A i \in Instances : inst[i].status = "ready"
     /\ last.op \in {"set", "unset", "unset_all", "reload"})
        => \A i \in Instances : Mirrored(inst[i].env, environ)

(***************************************************************************)
(* The splitter on its own: every text of at most MaxSplitLen characters   *)
(* over SplitChars, and the texts of the splitter's tests, split at each   *)
(* delimiter of SplitDelimiters.                                           *)
(***************************************************************************)
MaxSplitLen == 4

SplitChars == {"a", ",", " ", "[", "]", "{", "}", "'", "\""}

SplitDelimiters == {",", " "}

\* the texts of test_smart_split and three more with nested and quoted parts
SplitTests ==
    { <<"a",",","b",",","c">>,
      <<"a",",","[","b",",","c","]",",","d">>,
      <<"a",",","\"","b",",","c","\"",",","d">>,
      <<"a",",","{","b",",","c","}",",","d">>,
      <<"[","{","a",",","}",",","]",",","a">>,
      <<"\"","'",",","\"",",","'",",","'">>,
      <<" ","a"," ",","," ",","," ","[",",","]"," ">> }

SplitOf(text, delimiter) == [at |-> "split", text |-> text, delimiter |-> delimiter]

SplitInputs ==
    {SplitOf(text, delimiter) :
         text \in SeqsUpTo(SplitChars, MaxSplitLen) \cup SplitTests,
         delimiter \in SplitDelimiters}

InitSplit ==
    /\ file = NoFile
    /\ environ = InitEnviron
    /\ inst = [i \in Instances |-> NewInstance]
    /\ last = NoCall
    /\ input \in SplitInputs
    /\ output = Idle

\* TypeCaster._smart_split(text, delimiter) on the input text and delimiter
Split ==
    /\ input.at = "split"
    /\ output.at = "idle"
    /\ output' = [at |-> "split", r |-> smart_split(input.text, input.delimiter)]
    /\ UNCHANGED <<file, environ, inst, last, input>>

\* the splitter on every text and delimiter of SplitInputs
SpecSplit == InitSplit /\ [][Split]_vars

\* the open quote after the character c, q being the open quote before it
\* ("" outside quotes): a quote character opens a span outside quotes and
\* closes the span that the same character opened
QuoteAfter(q, c) ==
    IF c \notin {"\"", "'"} THEN q
    ELSE IF q = "" THEN c
    ELSE IF q = c THEN "" ELSE q

\* the open quote after the first i characters of text
RECURSIVE OpenQuote(_, _)
OpenQuote(text, i) == IF i = 0 THEN "" ELSE QuoteAfter(OpenQuote(text, i - 1), text[i])

\* the character at j is outside every quoted span and is no quote itself
OutsideQuotes(text, j) == text[j] \notin {"\"", "'"} /\ OpenQuote(text, j - 1) = ""

\* how many times c stands outside quotes in the first i characters
Occurrences(text, c, i) ==
    Cardinality({j \in 1..i : text[j] = c /\ OutsideQuotes(text, j)})

\* the nesting depth after the first i characters: brackets and braces opened
\* less those closed, outside quotes
SquareDepth(text, i) == Occurrences(text, "[", i) - Occurrences(text, "]", i)
BraceDepth(text, i) == Occurrences(text, "{", i) - Occurrences(text, "}", i)

\* the delimiters of text outside quotes at bracket and brace depth 0
SplitPoints(text, delimiter) ==
    {i \in 1..Len(text) :
        /\ text[i] = delimiter
        /\ OutsideQuotes(text, i)
        /\ SquareDepth(text, i) = 0
        /\ BraceDepth(text, i) = 0}

\* the first of the points at or after a, Len(text) + 1 when there is none
NextPoint(text, points, a) ==
    IF \E p \in points : p >= a
    THEN CHOOSE p \in points : p >= a /\ \A q \in points : q >= a => p <= q
    ELSE Len(text) + 1

\* the parts of text[a..] between the points, trimmed, blank parts dropped
RECURSIVE FragmentsFrom(_, _, _)
FragmentsFrom(text, points, a) ==
    IF a > Len(text) + 1 THEN <<>>
    ELSE type_arg(Slice(text, a, NextPoint(text, points, a) - 1))
             \o FragmentsFrom(text, points, NextPoint(text, points, a) + 1)

\* no fragment is empty or starts or ends with white space
Trimmed(fragments) ==
    \A i \in 1..Len(fragments) :
        /\ fragments[i] # <<>>
        /\ ~isspace(fragments[i][1])
        /\ ~isspace(fragments[i][Len(fragments[i])])

\* C24: smart_split splits the text at the delimiters outside quotes at
\* bracket and brace depth 0 and nowhere else, a quoted span being closed
\* only by the character that opened it, and every fragment it returns is
\* trimmed and not empty
C24_SplitsAtTopLevelOnly ==
    output.at = "split" =>
        /\ output.r = FragmentsFrom(input.text, SplitPoints(input.text, input.delimiter), 1)
        /\ Trimmed(output.r)

\* the text '",' has been split at ",": the other quote and the comma inside
\* the span are inert and the text is returned as one fragment
C24_QuotedDelimiterInert ==
    /\ input = SplitOf(<<"'", "\"", ",", "'">>, ",")
    /\ output = [at |-> "split", r |-> <<input.text>>]

----------------------------------------------------------------------------
(* The resolver on reference graphs: contexts whose values refer to one    *)
(* another, with and without cycles, and chains of references.             *)

Lit(s) == [ref |-> FALSE, s |-> s]

Ref(name) == [ref |-> TRUE, s |-> name]

GraphNames == <<"A", "B", "C">>

\* a literal or a reference to A, B or C
GraphTokens == {Lit(<<"l">>)} \cup {Ref(<<GraphNames[i]>>) : i \in 1..Len(GraphNames)}

\* one token, or two
GraphValues == {<<t>> : t \in GraphTokens} \cup {<<t, u>> : t \in GraphTokens, u \in GraphTokens}

\* the context that binds A to a, B to b and C to c, <<>> leaving the name
\* unbound
BindOf(a, b, c) ==
    [name \in {<<"A">> : x \in {a} \ {<<>>}} \cup {<<"B">> : x \in {b} \ {<<>>}}
                  \cup {<<"C">> : x \in {c} \ {<<>>}} |->
        IF name = <<"A">> THEN a ELSE IF name = <<"B">> THEN b ELSE c]

\* every context over A and B, C being unbound or bound to one token
GraphBinds ==
    {BindOf(a, b, c) : a \in GraphValues \cup {<<>>}, b \in GraphValues \cup {<<>>},
                       c \in {<<t>> : t \in GraphTokens} \cup {<<>>}}

\* the chain of keys 0..n: key 0 bound to a literal, key i to ${key i-1}
ChainBind(n) ==
    [name \in {ChainKey(i) : i \in 0..n} |->
        IF name = ChainKey(0) THEN <<Lit(<<"v">>)>>
        ELSE <<Ref(ChainKey((CHOOSE i \in 1..n : name = ChainKey(i)) - 1))>>]

\* X=${A}/${B} over A=${C}, B=${C}, C=literal, and ${A}${A}/${A} over A=${B}
GraphTests ==
    { [top |-> <<Ref(<<"A">>), Lit(<<"/">>), Ref(<<"B">>)>>,
       bind |-> BindOf(<<Ref(<<"C">>)>>, <<Ref(<<"C">>)>>, <<Lit(<<"l","i","t">>)>>)],
      [top |-> <<Ref(<<"A">>), Ref(<<"A">>), Lit(<<"/">>), Ref(<<"A">>)>>,
       bind |-> BindOf(<<Ref(<<"B">>)>>, <<Lit(<<"l">>)>>, <<>>)] }

GraphInputs ==
    [top : GraphValues, bind : GraphBinds]
        \cup {[top |-> <<Ref(ChainKey(n))>>, bind |-> ChainBind(n)] : n \in 0..MaxChain}
        \cup GraphTests

TokenText(t) == IF t.ref THEN reference(t.s) ELSE t.s

\* the text of the tokens from the i-th on
RECURSIVE TokensText(_, _)
TokensText(tokens, i) ==
    IF i > Len(tokens) THEN <<>> ELSE TokenText(tokens[i]) \o TokensText(tokens, i + 1)

\* the context as the dict the resolver reads: the bound names in the order of
\* ChainKeys, each with the text of its tokens
GraphDict(bind) ==
    SelectSeq([i \in 1..Len(ChainKeys) |->
                  [k |-> <<ChainKeys[i]>>,
                   v |-> IF <<ChainKeys[i]>> \in DOMAIN bind
                         THEN StrV(TokensText(bind[<<ChainKeys[i]>>], 1)) ELSE NoneV]],
              LAMBDA e : e.k \in DOMAIN bind)

InitGraph ==
    /\ file = NoFile
    /\ environ = InitEnviron
    /\ inst = [i \in Instances |-> NewInstance]
    /\ last = NoCall
    /\ input \in {[at |-> "graph", in |-> in] : in \in GraphInputs}
    /\ output = Idle

\* Envist._resolve_variable_with_env(value, env_dict) on the text of the top
\* tokens and the context
ResolveGraph ==
    /\ input.at = "graph"
    /\ output.at = "idle"
    /\ output' = [at |-> "graph",
                  r |-> resolve_variable_with_env(TokensText(input.in.top, 1),
                                                  GraphDict(input.in.bind), environ)]
    /\ UNCHANGED <<file, environ, inst, last, input>>

\* the resolver on every reference graph and chain
SpecGraph == InitGraph /\ [][ResolveGraph]_vars

\* the names the tokens refer to
TokenRefs(tokens) == {tokens[i].s : i \in {j \in 1..Len(tokens) : tokens[j].ref}}

\* a reference of names leads, through the context, back to a name on the path
\* that led to it
RECURSIVE Cyclic(_, _, _)
Cyclic(names, bind, path) ==
    \E name \in names \cap DOMAIN bind :
        name \in path \/ Cyclic(TokenRefs(bind[name]), bind, path \cup {name})

\* the greater of two numbers
Greater(a, b) == IF a >= b THEN a ELSE b

\* the nested levels the tokens need without cycles: one, and one more than
\* the deepest bound name they refer to whose value holds a reference
RECURSIVE Levels(_, _)
RECURSIVE DeepestFrom(_, _, _)
DeepestFrom(tokens, bind, i) ==
    IF i > Len(tokens) THEN 0
    ELSE IF tokens[i].ref /\ tokens[i].s \in DOMAIN bind /\ TokenRefs(bind[tokens[i].s]) # {}
         THEN Greater(Levels(bind[tokens[i].s], bind), DeepestFrom(tokens, bind, i + 1))
    ELSE DeepestFrom(tokens, bind, i + 1)

Levels(tokens, bind) == 1 + DeepestFrom(tokens, bind, 1)

\* the tokens from the i-th on with every reference followed to its end,
\* without cycles: the context's tokens for a bound name, os.environ's value
\* or the empty str for the others
RECURSIVE Expanded(_, _, _, _)
Expanded(tokens, bind, os_environ, i) ==
    IF i > Len(tokens) THEN <<>>
    ELSE (IF ~tokens[i].ref THEN tokens[i].s
          ELSE IF tokens[i].s \in DOMAIN bind
               THEN Expanded(bind[tokens[i].s], bind, os_environ, 1)
          ELSE FromEnviron(os_environ, tokens[i].s))
             \o Expanded(tokens, bind, os_environ, i + 1)

\* C25: without a cycle among the references, also when a name is referred to
\* several times or reached along two paths, the resolver never raises the
\* circular-reference error: it returns the fully substituted str when the
\* references nest at most 11 levels deep, and raises the too-deep error
\* otherwise
C25_NoFalseCircular ==
    (output.at = "graph" /\ ~Cyclic(TokenRefs(input.in.top), input.in.bind, {})) =>
        IF Levels(input.in.top, input.in.bind) <= MaxDepth + 1
        THEN output.r = Resolved(Expanded(input.in.top, input.in.bind, environ, 1))
        ELSE ~output.r.ok /\ output.r.exc = EnvistParseError("CircularOrTooDeep")

\* ${A}/${B} was resolved over A=${C}, B=${C}, C=lit to lit/lit
C25_DiamondResolved ==
    /\ output.at = "graph"
    /\ input.in.top = <<Ref(<<"A">>), Lit(<<"/">>), Ref(<<"B">>)>>
    /\ input.in.bind =
           BindOf(<<Ref(<<"C">>)>>, <<Ref(<<"C">>)>>, <<Lit(<<"l","i","t">>)>>)
    /\ output.r = Resolved(<<"l","i","t","/","l","i","t">>)

\* C26: on every context, with or without cycles, the resolver ends with a
\* str or with an EnvistParseError; it ends with the error when the
\* references hold a cycle, and without a cycle it ends with a str exactly
\* when the references nest at most 11 levels deep
C26_ResolutionEnds ==
    output.at = "graph" =>
        /\ output.r.ok \/ output.r.exc.cls = "EnvistParseError"
        /\ IF Cyclic(TokenRefs(input.in.top), input.in.bind, {})
           THEN ~output.r.ok
           ELSE output.r.ok <=> Levels(input.in.top, input.in.bind) <= MaxDepth + 1

\* ${A} was resolved over the cycle A=${B}, B=${A} and the resolution ended
\* with the circular-reference error
C26_CycleEndsWithError ==
    /\ output.at = "graph"
    /\ input.in.top = <<Ref(<<"A">>)>>
    /\ input.in.bind = BindOf(<<Ref(<<"B">>)>>, <<Ref(<<"A">>)>>, <<>>)
    /\ output.r = ResolveFail(EnvistParseError("Circular"))

----------------------------------------------------------------------------
(* The constructor on files that define a key more than once.              *)

\* what the validator makes of a raw line: nothing for a line the filter
\* drops, the parsed line otherwise
ParsedLines(line, accept_empty) ==
    [i \in 1..Len(keep_line(filter_line(line))) |->
        parse_line_with_cast(keep_line(filter_line(line))[i], accept_empty)]

\* every line of the file that the filter keeps is parsed without an error
AllLinesParse(lines, accept_empty) ==
    \A i \in 1..Len(lines) :
        \A j \in 1..Len(ParsedLines(lines[i], accept_empty)) :
            ParsedLines(lines[i], accept_empty)[j].ok

\* the key of line i is defined again by a later line
DefinedAgain(lines, i, accept_empty) ==
    /\ ParsedLines(lines[i], accept_empty) # <<>>
    /\ \E j \in (i + 1)..Len(lines) :
           /\ ParsedLines(lines[j], accept_empty) # <<>>
           /\ ParsedLines(lines[j], accept_empty)[1].key
                  = ParsedLines(lines[i], accept_empty)[1].key

\* the lines without those whose key a later line defines again
RECURSIVE LastDefinitions(_, _, _)
LastDefinitions(lines, i, accept_empty) ==
    IF i > Len(lines) THEN <<>>
    ELSE (IF DefinedAgain(lines, i, accept_empty) THEN <<>> ELSE <<lines[i]>>)
             \o LastDefinitions(lines, i + 1, accept_empty)

SomeDefinedAgain(lines, accept_empty) ==
    \E i \in 1..Len(lines) : DefinedAgain(lines, i, accept_empty)

\* the items of a typed map, whatever their order
ItemsOf(env) == {env[i] : i \in 1..Len(env)}

\* the load gave what the load of the last definitions alone gives: both fail
\* or both succeed with the same keys and values
SameAsLastDefinitions(exc, env, only_last) ==
    /\ (exc = NoExc) <=> (only_last.exc = NoExc)
    /\ exc = NoExc => ItemsOf(env) = ItemsOf(only_last.env)

\* C27, as the specification states it: when a file defines a key on more
\* than one line the last definition wins entirely, the load giving what the
\* file gives with the earlier definitions of every key taken out
C27_LastDefinitionWins ==
    (/\ last.op = "construct"
     /\ file.exists
     /\ AllLinesParse(file.lines, inst[1].accept_empty)
     /\ SomeDefinedAgain(file.lines, inst[1].accept_empty))
        => SameAsLastDefinitions(
               last.exc, inst[1].env,
               load_env(FileOf(LastDefinitions(file.lines, 1, inst[1].accept_empty)),
                        <<>>, InitEnviron, inst[1].accept_empty, inst[1].auto_cast))

----------------------------------------------------------------------------
(* unset_all with a list of keys.                                          *)

\* the keys of the list
Listed(data_list) == {data_list[n] : n \in 1..Len(data_list)}

\* every listed key is a key of the typed map
AllPresent(data_list, env) == \A key \in Listed(data_list) : dict_has(env, key)

\* the step takes the listed keys, and nothing else, out of the typed map of
\* instance i and out of os.environ
RemovesExactly(i, data_list) ==
    /\ inst'[i].env = SelectSeq(inst[i].env, LAMBDA e : e.k \notin Listed(data_list))
    /\ DOMAIN environ' = DOMAIN environ \ Listed(data_list)
    /\ \A name \in DOMAIN environ' : environ'[name] = environ[name]

\* a call unset_all(data_list) with a list whose keys are all present removes
\* exactly the listed keys
ListedKeysOnly ==
    \A data_list \in SeqsUpTo(UnsetKeys, MaxKeys) :
        (UnsetAll(1, TRUE, data_list) /\ AllPresent(data_list, inst[1].env))
            => RemovesExactly(1, data_list)

\* C28, as the specification states it: unset_all(keys) with a list of keys
\* that are all present removes exactly the listed keys from the typed map
\* and os.environ and leaves every other key untouched, so that an empty list
\* removes nothing
C28_UnsetAllListedKeysOnly == [][ListedKeysOnly]_vars

----------------------------------------------------------------------------
(* reload on a file that no longer loads.                                  *)

\* os.environ holds for the keys of env what it held before
SameEntries(env, before, after) ==
    \A n \in 1..Len(env) :
        /\ (env[n].k \in DOMAIN before) <=> (env[n].k \in DOMAIN after)
        /\ env[n].k \in DOMAIN before => after[env[n].k] = before[env[n].k]

\* a step of reload that raises leaves the typed map of the instance and the
\* os.environ entries of its keys as they were
FailedReloadChangesNothing ==
    (last'.op = "reload" /\ last'.exc # NoExc) =>
        /\ inst'[1].env = inst[1].env
        /\ SameEntries(inst[1].env, environ, environ')

\* C29, as the specification states it: when reload() fails, the instance's
\* typed map and the os.environ entries of its keys are left as they were
\* before the call
C29_FailedReloadChangesNothing == [][FailedReloadChangesNothing]_vars
====
